---- MODULE Spec2Model ----
(***************************************************************************)
(* A model of the Bitcoin Script analyzer: the opcode table, the bytecode  *)
(* parser, the expression algebra (ordering, sorting, constant folding,    *)
(* substitution), the symbolic stack, the condition stack, the per-path    *)
(* interpreter, the condition simplifier and the locktime extractor.       *)
(*                                                                         *)
(* Expressions are records of one shape                                    *)
(*   [t, op, pos, b, args, pk, err]                                        *)
(* t is "Bytes", "Stack" or "Op"; b the bytes of a Bytes; pos the slot of  *)
(* a Stack; op/args the opcode and children of an Op, pk the pk_offset of  *)
(* a multisig (op = OP_CHECKMULTISIG) and err the optional error tag.      *)
(***************************************************************************)
EXTENDS Integers, Sequences, FiniteSets, TLC

VARIABLES
    \* ConditionStack under test and the vector of booleans it stands for
    cs, vec, cs_last,
    \* parse_from_bytes: input, loop position, parsed elements, outcome, to_bytes output
    p_bytes, p_offset, p_a, p_res, p_ret,
    \* sort_recursive / cmp: input list, sorted list, last comparison, position
    s_exprs, s_out, s_ord, s_pc,
    \* eval_conditions: the conditions, the context, position, error, the
    \* condition lists from which earlier passes of its loop started, and the
    \* conditions it was called with
    ec_conds, ec_ctx, ec_pc, ec_err, ec_seen, ec_init,
    \* analyze_script: script, context, position, call stack of paths, results,
    \* reported results, return value, finished paths, number of paths created
    an_script, an_ctx, an_pc, an_frames, an_results, an_reported, an_ret, an_log,
    an_created,
    \* the codecs: which input was drawn, the integer, the byte string, the
    \* decoded integer (with its error), the decoded boolean, position
    cd_kind, cd_n, cd_b, cd_int, cd_bool, cd_pc,
    \* analyze_script with worker threads: script, context, number of workers,
    \* the channel of submitted jobs, the number of live Senders, the holders
    \* of the receiver mutex and of the results mutex, each thread's position
    \* and path (thread 0 is the caller), the results collection, the results
    \* read after the scope, and how often each submitted job was received
    pl_script, pl_ctx, pl_workers, pl_chan, pl_senders, pl_recv_lock, pl_results_lock,
    pl_thr, pl_results, pl_out, pl_runs,
    \* a Stack under a sequence of its operations: the stack, the values the
    \* last operation handed out, the number of operations so far, and the
    \* record of the inputs materialised so far (position id and depth below
    \* the top of the initial stack), in the order of their creation
    sk_st, sk_hand, sk_n, sk_made,
    \* calculate_locktime_requirements on a list of conditions and on the same
    \* conditions in another order: the two lists, the two results, what
    \* analyze_script makes of the path, and the position of each of the three
    lk_conds, lk_other, lk_res, lk_res_other, lk_ret, lk_pc,
    \* Opcode::from_name: the name given (ASCII codes), the table row it was
    \* written from (0: from none), the result, the position
    nm_name, nm_row, nm_out, nm_pc,
    \* Stack opcodes against Bitcoin Script: the analyzer, the reference
    \* stack after the last opcode, that opcode, the number of opcodes run
    so_self, so_ref, so_last, so_n,
    \* Expr::eval on one expression: input, context, result, position
    fo_expr, fo_ctx, fo_res, fo_pc,
    \* OP_PICK / OP_ROLL step by step: the stack, the index read, the opcode,
    \* the position, the number of opcodes run
    pr_st, pr_index, pr_op, pr_pc, pr_n

csVars == <<cs, vec, cs_last>>
parseVars == <<p_bytes, p_offset, p_a, p_res, p_ret>>
sortVars == <<s_exprs, s_out, s_ord, s_pc>>
evalVars == <<ec_conds, ec_ctx, ec_pc, ec_err, ec_seen, ec_init>>
anVars == <<an_script, an_ctx, an_pc, an_frames, an_results, an_reported, an_ret, an_log,
            an_created>>
codecVars == <<cd_kind, cd_n, cd_b, cd_int, cd_bool, cd_pc>>
\* The groups of the specifications further below.
poolVars == <<pl_script, pl_ctx, pl_workers, pl_chan, pl_senders, pl_recv_lock,
              pl_results_lock, pl_thr, pl_results, pl_out, pl_runs>>
stackVars == <<sk_st, sk_hand, sk_n, sk_made>>
lockVars == <<lk_conds, lk_other, lk_res, lk_res_other, lk_ret, lk_pc>>
pickVars == <<pr_st, pr_index, pr_op, pr_pc, pr_n>>
foldVars == <<fo_expr, fo_ctx, fo_res, fo_pc>>
opVars == <<so_self, so_ref, so_last, so_n>>
nameVars == <<nm_name, nm_row, nm_out, nm_pc>>
restVars == <<codecVars, poolVars, stackVars, lockVars, nameVars, opVars, foldVars, pickVars>>
vars == <<csVars, parseVars, sortVars, evalVars, anVars, restVars>>

(***************************************************************************)
(* Opcode table (opcodes! macro).                                          *)
(***************************************************************************)
OP_0 == 0
OP_FALSE == 0
OP_PUSHDATA1 == 76
OP_PUSHDATA2 == 77
OP_PUSHDATA4 == 78
OP_1NEGATE == 79
OP_RESERVED == 80
OP_1 == 81
OP_TRUE == 81
OP_2 == 82
OP_3 == 83
OP_4 == 84
OP_5 == 85
OP_6 == 86
OP_7 == 87
OP_8 == 88
OP_9 == 89
OP_10 == 90
OP_11 == 91
OP_12 == 92
OP_13 == 93
OP_14 == 94
OP_15 == 95
OP_16 == 96
OP_NOP == 97
OP_VER == 98
OP_IF == 99
OP_NOTIF == 100
OP_VERIF == 101
OP_VERNOTIF == 102
OP_ELSE == 103
OP_ENDIF == 104
OP_VERIFY == 105
OP_RETURN == 106
OP_TOALTSTACK == 107
OP_FROMALTSTACK == 108
OP_2DROP == 109
OP_2DUP == 110
OP_3DUP == 111
OP_2OVER == 112
OP_2ROT == 113
OP_2SWAP == 114
OP_IFDUP == 115
OP_DEPTH == 116
OP_DROP == 117
OP_DUP == 118
OP_NIP == 119
OP_OVER == 120
OP_PICK == 121
OP_ROLL == 122
OP_ROT == 123
OP_SWAP == 124
OP_TUCK == 125
OP_CAT == 126
OP_SUBSTR == 127
OP_LEFT == 128
OP_RIGHT == 129
OP_SIZE == 130
OP_INVERT == 131
OP_AND == 132
OP_OR == 133
OP_XOR == 134
OP_EQUAL == 135
OP_EQUALVERIFY == 136
OP_RESERVED1 == 137
OP_RESERVED2 == 138
OP_1ADD == 139
OP_1SUB == 140
OP_2MUL == 141
OP_2DIV == 142
OP_NEGATE == 143
OP_ABS == 144
OP_NOT == 145
OP_0NOTEQUAL == 146
OP_ADD == 147
OP_SUB == 148
OP_MUL == 149
OP_DIV == 150
OP_MOD == 151
OP_LSHIFT == 152
OP_RSHIFT == 153
OP_BOOLAND == 154
OP_BOOLOR == 155
OP_NUMEQUAL == 156
OP_NUMEQUALVERIFY == 157
OP_NUMNOTEQUAL == 158
OP_LESSTHAN == 159
OP_GREATERTHAN == 160
OP_LESSTHANOREQUAL == 161
OP_GREATERTHANOREQUAL == 162
OP_MIN == 163
OP_MAX == 164
OP_WITHIN == 165
OP_RIPEMD160 == 166
OP_SHA1 == 167
OP_SHA256 == 168
OP_HASH160 == 169
OP_HASH256 == 170
OP_CODESEPARATOR == 171
OP_CHECKSIG == 172
OP_CHECKSIGVERIFY == 173
OP_CHECKMULTISIG == 174
OP_CHECKMULTISIGVERIFY == 175
OP_NOP1 == 176
OP_CHECKLOCKTIMEVERIFY == 177
OP_NOP2 == 177
OP_CHECKSEQUENCEVERIFY == 178
OP_NOP3 == 178
OP_NOP4 == 179
OP_NOP5 == 180
OP_NOP6 == 181
OP_NOP7 == 182
OP_NOP8 == 183
OP_NOP9 == 184
OP_NOP10 == 185
OP_CHECKSIGADD == 186
OP_INVALIDOPCODE == 255
OP_CLTV == 177
OP_CSV == 178
OP_INTERNAL_NOT == 254

NamedOpcodes ==
    {OP_0, OP_PUSHDATA1, OP_PUSHDATA2, OP_PUSHDATA4} \cup (OP_1NEGATE .. OP_CHECKSIGADD)
        \cup {OP_INVALIDOPCODE, OP_INTERNAL_NOT}

is_internal(op) == op = OP_INTERNAL_NOT

\* A name() that gives the internal opcode a name too.
HasName_internal(op) == op \in NamedOpcodes

\* Opcode::name: Some(..) for every byte of the table that is not internal.
HasName(op) == op \in NamedOpcodes /\ ~is_internal(op)

\* is_disabled with the OP_CAT arm left out.
is_disabled_without_cat(op) ==
    op \in {OP_SUBSTR, OP_LEFT, OP_RIGHT, OP_INVERT, OP_AND, OP_OR, OP_XOR,
            OP_2MUL, OP_2DIV, OP_MUL, OP_DIV, OP_MOD, OP_LSHIFT, OP_RSHIFT}

is_disabled(op) ==
    op \in {OP_CAT, OP_SUBSTR, OP_LEFT, OP_RIGHT, OP_INVERT, OP_AND, OP_OR, OP_XOR,
            OP_2MUL, OP_2DIV, OP_MUL, OP_DIV, OP_MOD, OP_LSHIFT, OP_RSHIFT}

\* 0 stands for None.
pushdata_length(op) ==
    IF op = OP_PUSHDATA1 THEN 1
    ELSE IF op = OP_PUSHDATA2 THEN 2
    ELSE IF op = OP_PUSHDATA4 THEN 4
    ELSE 0

returns_boolean(op) ==
    op \in {OP_EQUAL, OP_NOT, OP_0NOTEQUAL, OP_BOOLAND, OP_BOOLOR, OP_NUMEQUAL,
            OP_NUMNOTEQUAL, OP_LESSTHAN, OP_GREATERTHAN, OP_LESSTHANOREQUAL,
            OP_GREATERTHANOREQUAL, OP_WITHIN, OP_CHECKSIG, OP_CHECKMULTISIG,
            OP_INTERNAL_NOT}

can_reorder_args(op) ==
    op \notin {OP_SUB, OP_LESSTHAN, OP_GREATERTHAN, OP_LESSTHANOREQUAL,
               OP_GREATERTHANOREQUAL, OP_WITHIN, OP_CHECKSIG, OP_CHECKMULTISIG}

(***************************************************************************)
(* Expr constructors.                                                      *)
(***************************************************************************)
BytesE(bs) ==
    [t |-> "Bytes", op |-> 0, pos |-> 0, b |-> bs, args |-> <<>>, pk |-> 0, err |-> "none"]

StackE(p) ==
    [t |-> "Stack", op |-> 0, pos |-> p, b |-> <<>>, args |-> <<>>, pk |-> 0, err |-> "none"]

OpE(o, as) ==
    [t |-> "Op", op |-> o, pos |-> 0, b |-> <<>>, args |-> as, pk |-> 0, err |-> "none"]

expr_with_error(o, as, error) == [OpE(o, as) EXCEPT !.err = error]

MultisigE(es, pk_offset) == [OpE(OP_CHECKMULTISIG, es) EXCEPT !.pk = pk_offset]

sigs(m) == SubSeq(m.args, 1, m.pk)

keys(m) == SubSeq(m.args, m.pk + 1, Len(m.args))

(***************************************************************************)
(* The total order (impl Ord for Expr / OpExpr).  Results are -1, 0, 1     *)
(* for Less, Equal, Greater.                                               *)
(***************************************************************************)
CmpInt(x, y) == IF x < y THEN -1 ELSE IF x > y THEN 1 ELSE 0

\* derive(Ord) on Box<[u8]>: lexicographic, a proper prefix is smaller.
RECURSIVE CmpBytes(_, _)
CmpBytes(x, y) ==
    IF x = <<>> \/ y = <<>> THEN CmpInt(Len(x), Len(y))
    ELSE IF Head(x) # Head(y) THEN CmpInt(Head(x), Head(y))
    ELSE CmpBytes(Tail(x), Tail(y))

\* priority with the numbers of Bytes and Op exchanged.
priority_reversed(e) == IF e.t = "Bytes" THEN 2 ELSE IF e.t = "Stack" THEN 1 ELSE 0

priority(e) == IF e.t = "Bytes" THEN 0 ELSE IF e.t = "Stack" THEN 1 ELSE 2

RECURSIVE cmp(_, _)
RECURSIVE CmpArgs(_, _)
CmpArgs(x, y) ==
    IF x = <<>> THEN 0
    ELSE LET c == cmp(Head(x), Head(y))
         IN IF c # 0 THEN c ELSE CmpArgs(Tail(x), Tail(y))

OpExprCmp(x, y) ==
    IF x.op # y.op THEN CmpInt(x.op, y.op)
    ELSE IF Len(x.args) # Len(y.args) THEN CmpInt(Len(x.args), Len(y.args))
    ELSE CmpArgs(x.args, y.args)

cmp(x, y) ==
    IF x.t = "Op" /\ y.t = "Op" THEN OpExprCmp(x, y)
    ELSE IF x.t = "Stack" /\ y.t = "Stack" THEN CmpInt(x.pos, y.pos)
    ELSE IF x.t = "Bytes" /\ y.t = "Bytes" THEN CmpBytes(x.b, y.b)
    ELSE CmpInt(priority(y), priority(x))

(***************************************************************************)
(* Expr::sort_recursive.  sort_unstable is rendered as an insertion sort:  *)
(* every sort yields the same list up to the order of elements that        *)
(* compare Equal.                                                          *)
(***************************************************************************)
RECURSIVE Insert(_, _)
Insert(e, s) ==
    IF s = <<>> THEN <<e>>
    ELSE IF cmp(e, Head(s)) < 0 THEN <<e>> \o s
    ELSE <<Head(s)>> \o Insert(e, Tail(s))

RECURSIVE sort_unstable(_)
sort_unstable(s) ==
    IF s = <<>> THEN <<>> ELSE Insert(Head(s), sort_unstable(Tail(s)))

RECURSIVE sort_recursive_(_, _)
sort_recursive_(es, sort_current) ==
    LET cur == IF sort_current THEN sort_unstable(es) ELSE es
    IN  [i \in 1..Len(cur) |->
            IF cur[i].t = "Op"
            THEN [cur[i] EXCEPT !.args = sort_recursive_(cur[i].args, can_reorder_args(cur[i].op))]
            ELSE cur[i]]

sort_recursive(es) == sort_recursive_(es, TRUE)

(***************************************************************************)
(* ConditionStack: the size of the implied stack and the position of its   *)
(* first false value.                                                      *)
(***************************************************************************)
\* u32::MAX, written as the 32-bit pattern 0xffffffff read in two's complement
\* (the model checker's integers are 32-bit signed); m_stack_size - 1 at size 0
\* wraps to this value too.
NO_FALSE == -1

ConditionStack_new == [m_stack_size |-> 0, m_first_false_pos |-> NO_FALSE]

\* An empty() that never answers true.
empty_never(c) == FALSE

empty(c) == c.m_stack_size = 0

all_true(c) == c.m_first_false_pos = NO_FALSE

push_back(c, f) ==
    [m_stack_size |-> c.m_stack_size + 1,
     m_first_false_pos |->
        IF c.m_first_false_pos = NO_FALSE /\ ~f THEN c.m_stack_size
        ELSE c.m_first_false_pos]

pop_back_keeps_false(c) ==
    [c EXCEPT !.m_stack_size = c.m_stack_size - 1]

pop_back(c) ==
    LET size == c.m_stack_size - 1
    IN  [m_stack_size |-> size,
         m_first_false_pos |->
            IF c.m_first_false_pos = size THEN NO_FALSE ELSE c.m_first_false_pos]

\* toggle_top that leaves the stack as it is.
toggle_top_noop(c) == c

toggle_top(c) ==
    IF c.m_first_false_pos = NO_FALSE
    THEN [c EXCEPT !.m_first_false_pos = c.m_stack_size - 1]
    ELSE IF c.m_first_false_pos = c.m_stack_size - 1
    THEN [c EXCEPT !.m_first_false_pos = NO_FALSE]
    ELSE c

(***************************************************************************)
(* Script elements, the bytecode parser and Script::to_bytes.              *)
(***************************************************************************)
ScriptOp(o) == [t |-> "Op", op |-> o, b |-> <<>>]

ScriptBytes(bs) == [t |-> "Bytes", op |-> 0, b |-> bs]

\* u32::from_le_bytes of the 1, 2 or 4 length bytes.
RECURSIVE from_le_bytes(_)
from_le_bytes(bs) ==
    IF bs = <<>> THEN 0 ELSE Head(bs) + 256 * from_le_bytes(Tail(bs))

\* bytes.get(from..to) with 0-based from, exclusive to; Some exactly when in range.
InRange(bs, to) == to <= Len(bs)

Slice(bs, from, to) == SubSeq(bs, from + 1, to)

ParseRes(kind, x, y) == [kind |-> kind, x |-> x, y |-> y]

\* One iteration of the loop of parse_from_bytes, from offset off < Len(bs).
parse_step(bs, off) ==
    LET byte == bs[off + 1]
        o1 == off + 1
        n == pushdata_length(byte)
    IN  IF HasName(byte)
        THEN IF n # 0
             THEN IF ~InRange(bs, o1 + n)
                  THEN [res |-> ParseRes("UnexpectedEndPushdataLength", byte, 0),
                        off |-> o1, elem |-> <<>>]
                  ELSE LET l == from_le_bytes(Slice(bs, o1, o1 + n))
                           o2 == o1 + n
                       IN  IF ~InRange(bs, o2 + l)
                           THEN [res |-> ParseRes("UnexpectedEnd", l, Len(bs) - o2),
                                 off |-> o2, elem |-> <<>>]
                           ELSE [res |-> ParseRes("run", 0, 0), off |-> o2 + l,
                                 elem |-> <<ScriptBytes(Slice(bs, o2, o2 + l))>>]
             ELSE [res |-> ParseRes("run", 0, 0), off |-> o1, elem |-> <<ScriptOp(byte)>>]
        ELSE IF byte <= 75
        THEN IF ~InRange(bs, o1 + byte)
             THEN [res |-> ParseRes("UnexpectedEnd", byte, Len(bs) - o1),
                   off |-> o1, elem |-> <<>>]
             ELSE [res |-> ParseRes("run", 0, 0), off |-> o1 + byte,
                   elem |-> <<ScriptBytes(Slice(bs, o1, o1 + byte))>>]
        ELSE [res |-> ParseRes("Invalid", byte, 0), off |-> o1, elem |-> <<>>]

RECURSIVE to_bytes(_)
to_bytes(sc) ==
    IF sc = <<>> THEN <<>>
    ELSE (IF Head(sc).t = "Op" THEN <<Head(sc).op>> ELSE Head(sc).b) \o to_bytes(Tail(sc))

\* The whole of parse_from_bytes, for callers that need a parsed script.
RECURSIVE parse_from(_, _, _)
parse_from(bs, off, acc) ==
    IF off >= Len(bs) THEN [res |-> ParseRes("ok", 0, 0), a |-> acc]
    ELSE LET st == parse_step(bs, off)
         IN  IF st.res.kind # "run" THEN [res |-> st.res, a |-> acc]
             ELSE parse_from(bs, st.off, acc \o st.elem)

parse_from_bytes(bs) == parse_from(bs, 0, <<>>)

(***************************************************************************)
(* script::convert: the integer and boolean codecs.                        *)
(***************************************************************************)
Abs(n) == IF n < 0 THEN -n ELSE n

RECURSIVE AbsBytes(_)
AbsBytes(n) == IF n = 0 THEN <<>> ELSE <<n % 256>> \o AbsBytes(n \div 256)

\* encode_int without the extra byte for a top byte with its high bit set.
encode_int_unpadded(n) ==
    IF n = 0 THEN <<>>
    ELSE LET buf == AbsBytes(Abs(n))
         IN  IF n < 0 /\ buf[Len(buf)] < 128
             THEN [buf EXCEPT ![Len(buf)] = buf[Len(buf)] + 128]
             ELSE buf

encode_int(n) ==
    IF n = 0 THEN <<>>
    ELSE LET buf == AbsBytes(Abs(n))
             len == Len(buf)
         IN  IF buf[len] >= 128
             THEN Append(buf, IF n < 0 THEN 128 ELSE 0)
             ELSE IF n < 0 THEN [buf EXCEPT ![len] = buf[len] + 128]
             ELSE buf

encode_int_expr(n) == BytesE(encode_int(n))

(***************************************************************************)
(* An i64 beyond 32 bits, as eval's a + b and a - b of two 4-byte operands *)
(* can be: the sign and the magnitude in two limbs, hi * 2^16 + lo.        *)
(***************************************************************************)
Limb == 256 * 256

I64(n) == [neg |-> n < 0, hi |-> Abs(n) \div Limb, lo |-> Abs(n) % Limb]

\* x + y for x and y of at most 31 bits of magnitude.
i64_add(x, y) ==
    IF x # 0 /\ y # 0 /\ (x < 0) = (y < 0)
    THEN LET lo == (Abs(x) % Limb) + (Abs(y) % Limb)
         IN  [neg |-> x < 0,
              hi |-> (Abs(x) \div Limb) + (Abs(y) \div Limb) + (lo \div Limb),
              lo |-> lo % Limb]
    ELSE I64(x + y)

i64_sub(x, y) == i64_add(x, -y)

\* while abs != 0 { buf[len] = abs as u8; len += 1; abs >>= 8; }
abs_bytes_wide(w) ==
    IF w.hi = 0 THEN AbsBytes(w.lo)
    ELSE <<w.lo % 256, w.lo \div 256>> \o AbsBytes(w.hi)

\* encode_int without the byte added for a top byte with its high bit set.
encode_int_wide_unpadded(w) ==
    LET buf == abs_bytes_wide(w)
    IN  IF buf # <<>> /\ w.neg /\ buf[Len(buf)] < 128
        THEN [buf EXCEPT ![Len(buf)] = buf[Len(buf)] + 128]
        ELSE buf

\* encode_int on an i64 given by its limbs.
encode_int_wide(w) ==
    IF w.hi = 0 /\ w.lo = 0 THEN <<>>
    ELSE LET buf == abs_bytes_wide(w)
             len == Len(buf)
         IN  IF buf[len] >= 128
             THEN Append(buf, IF w.neg THEN 128 ELSE 0)
             ELSE IF w.neg THEN [buf EXCEPT ![len] = buf[len] + 128]
             ELSE buf

INT_MAX_LEN == 5

check_int(bs, max_len) ==
    IF Len(bs) > max_len THEN "SCRIPT_ERR_NUM_OVERFLOW" ELSE "none"

decode_int_unchecked(bs) ==
    IF bs = <<>> THEN 0
    ELSE LET len == Len(bs)
             neg == bs[len] >= 128
             bytes_ == IF neg THEN [bs EXCEPT ![len] = bs[len] - 128] ELSE bs
             n == from_le_bytes(bytes_)
         IN  IF neg THEN -n ELSE n

encode_bool(v) == IF v THEN <<1>> ELSE <<>>

encode_bool_expr(v) == BytesE(encode_bool(v))

RECURSIVE decode_bool_from(_, _)
decode_bool_from(bs, i) ==
    IF i > Len(bs) THEN FALSE
    ELSE IF bs[i] # 0 THEN i # Len(bs) \/ bs[i] # 128
    ELSE decode_bool_from(bs, i + 1)

\* decode_bool that takes any non-zero byte for true.
decode_bool_any_nonzero(bs) == \E i \in 1..Len(bs) : bs[i] # 0

decode_bool(bs) == decode_bool_from(bs, 1)

(***************************************************************************)
(* util::checksig.                                                         *)
(***************************************************************************)
SIG_HASH_TYPES == {1, 2, 3, 129, 130, 131}

\* "Invalid", "compressed" or "uncompressed".
check_pub_key(pk) ==
    IF Len(pk) = 33 /\ pk[1] \in {2, 3} THEN "compressed"
    ELSE IF Len(pk) = 65 /\ pk[1] = 4 THEN "uncompressed"
    ELSE "Invalid"

is_valid_signature_encoding(sig) ==
    /\ Len(sig) >= 9
    /\ Len(sig) <= 73
    /\ sig[1] = 48
    /\ sig[2] = Len(sig) - 3
    /\ LET len_r == sig[4]
       IN  /\ 5 + len_r < Len(sig)
           /\ LET len_s == sig[6 + len_r]
              IN  /\ len_r + len_s + 7 = Len(sig)
                  /\ sig[3] = 2
                  /\ len_r # 0
                  /\ sig[5] < 128
                  /\ ~(len_r > 1 /\ sig[5] = 0 /\ sig[6] < 128)
                  /\ sig[len_r + 5] = 2
                  /\ len_s # 0
                  /\ sig[len_r + 7] < 128
                  /\ ~(len_s > 1 /\ sig[len_r + 7] = 0 /\ sig[len_r + 8] < 128)

(***************************************************************************)
(* The digests come from the bitcoin_hashes crate.  The model keeps their  *)
(* lengths (20 bytes for RIPEMD160 and SHA1, 32 for SHA256) and a content  *)
(* that is a function of the opcode and the data.                          *)
(***************************************************************************)
RECURSIVE ByteSum(_)
ByteSum(bs) == IF bs = <<>> THEN 0 ELSE Head(bs) + ByteSum(Tail(bs))

HashBytes(o, data) ==
    [i \in 1..(IF o = OP_SHA256 THEN 32 ELSE 20) |->
        (o + 7 * i + 3 * ByteSum(data) + Len(data)) % 256]

(***************************************************************************)
(* Expr::eval_ and Expr::replace_all.  eval_ yields the rewritten          *)
(* expression, whether it changed, and the error ("none" for Ok).          *)
(***************************************************************************)
EvalRes(e, changed, error) == [e |-> e, changed |-> changed, err |-> error]

\* sigs.zip(pks).map(CHECKSIG).reduce(BOOLAND), built from the left.
RECURSIVE MultisigFold(_, _, _, _)
MultisigFold(acc, ss, ks, i) ==
    IF i > Len(ss) THEN acc
    ELSE MultisigFold(OpE(OP_BOOLAND, <<acc, OpE(OP_CHECKSIG, <<ss[i], ks[i]>>)>>), ss, ks, i + 1)

\* The expansion cut short after the first pair.
MultisigExpand_first(m) ==
    IF Len(sigs(m)) = 0 THEN encode_bool_expr(TRUE)
    ELSE OpE(OP_CHECKSIG, <<sigs(m)[1], keys(m)[1]>>)

MultisigExpand(m) ==
    IF Len(sigs(m)) = 0 THEN encode_bool_expr(TRUE)
    ELSE MultisigFold(OpE(OP_CHECKSIG, <<sigs(m)[1], keys(m)[1]>>), sigs(m), keys(m), 2)

eval_checksig(self, c) ==
    LET sig == self.args[1]
        pubkey == self.args[2]
    IN  IF c.version = "SegwitV1"
        THEN IF pubkey.t # "Bytes" THEN EvalRes(self, FALSE, "none")
             ELSE IF Len(pubkey.b) = 0 THEN EvalRes(self, FALSE, "SCRIPT_ERR_PUBKEYTYPE")
             ELSE IF Len(pubkey.b) # 32
             THEN IF c.rules = "All"
                  THEN EvalRes(self, FALSE, "SCRIPT_ERR_DISCOURAGE_UPGRADABLE_PUBKEYTYPE")
                  ELSE EvalRes(encode_bool_expr(TRUE), TRUE, "none")
             ELSE IF sig.t # "Bytes" THEN EvalRes(self, FALSE, "none")
             ELSE IF Len(sig.b) = 0 THEN EvalRes(encode_bool_expr(FALSE), TRUE, "none")
             ELSE IF Len(sig.b) # 64 /\ Len(sig.b) # 65
             THEN EvalRes(self, FALSE, "SCRIPT_ERR_SCHNORR_SIG_SIZE")
             ELSE IF Len(sig.b) = 65 /\ sig.b[65] \notin SIG_HASH_TYPES
             THEN EvalRes(self, FALSE, "SCRIPT_ERR_SCHNORR_SIG_HASHTYPE")
             ELSE EvalRes(self, FALSE, "none")
        ELSE IF pubkey.t # "Bytes" THEN EvalRes(self, FALSE, "none")
        ELSE IF check_pub_key(pubkey.b) = "Invalid"
        THEN EvalRes(self, FALSE, "SCRIPT_ERR_PUBKEYTYPE")
        ELSE IF check_pub_key(pubkey.b) = "uncompressed"
                /\ c.version = "SegwitV0" /\ c.rules = "All"
        THEN EvalRes(self, FALSE, "SCRIPT_ERR_WITNESS_PUBKEYTYPE")
        ELSE IF sig.t # "Bytes" THEN EvalRes(self, FALSE, "none")
        ELSE IF Len(sig.b) = 0 THEN EvalRes(encode_bool_expr(FALSE), TRUE, "none")
        ELSE IF c.rules = "All" /\ ~is_valid_signature_encoding(sig.b)
        THEN EvalRes(self, FALSE, "SCRIPT_ERR_SIG_DER")
        ELSE IF c.rules = "All" /\ sig.b[Len(sig.b)] \notin SIG_HASH_TYPES
        THEN EvalRes(self, FALSE, "SCRIPT_ERR_SIG_HASHTYPE")
        ELSE EvalRes(self, FALSE, "none")

\* OP_INTERNAL_NOT not taken for a negation.
IsNot_only_not(o) == o = OP_NOT

IsNot(o) == o = OP_NOT \/ o = OP_INTERNAL_NOT

\* The match of eval_ on a node whose arguments are already evaluated;
\* changed is what the arguments reported.
eval_node(self, c, depth, changed) ==
    LET o == self.op
        arg == self.args[1]
    IN  IF o = OP_SIZE /\ arg.t = "Bytes"
        THEN EvalRes(encode_int_expr(Len(arg.b)), TRUE, "none")
        ELSE IF o = OP_SIZE /\ arg.t = "Op" /\ returns_boolean(arg.op)
        THEN EvalRes(arg, TRUE, "none")
        ELSE IF o \in {OP_RIPEMD160, OP_SHA1, OP_SHA256} /\ arg.t = "Bytes"
        THEN EvalRes(BytesE(HashBytes(o, arg.b)), TRUE, "none")
        ELSE IF IsNot(o) /\ arg.t = "Bytes"
        THEN IF o = OP_NOT /\ Len(arg.b) > 4
             THEN EvalRes(self, changed, "SCRIPT_ERR_NUM_OVERFLOW")
             ELSE EvalRes(encode_bool_expr(~decode_bool(arg.b)), TRUE, "none")
        ELSE IF /\ IsNot(o) /\ arg.t = "Op" /\ IsNot(arg.op)
                /\ \/ arg.args[1].t = "Op" /\ returns_boolean(arg.args[1].op)
                   \/ arg.args[1].t = "Stack" /\ depth = 0
        THEN EvalRes(arg.args[1], TRUE, "none")
        ELSE IF /\ IsNot(o) /\ arg.t = "Op" /\ depth = 0 /\ c.rules = "All"
                /\ arg.op = OP_CHECKSIG
        THEN EvalRes(OpE(OP_EQUAL, <<arg.args[1], encode_bool_expr(FALSE)>>), TRUE, "none")
        ELSE IF o \in {OP_ADD, OP_SUB}
        THEN LET a1 == self.args[1]
                 a2 == self.args[2]
             IN  IF a1.t = "Bytes" /\ check_int(a1.b, 4) # "none"
                 THEN EvalRes(self, changed, check_int(a1.b, 4))
                 ELSE IF a2.t = "Bytes" /\ check_int(a2.b, 4) # "none"
                 THEN EvalRes(self, changed, check_int(a2.b, 4))
                 ELSE IF a1.t = "Bytes" /\ a2.t = "Bytes"
                 THEN LET x == decode_int_unchecked(a1.b)
                          y == decode_int_unchecked(a2.b)
                          n == encode_int_wide(IF o = OP_ADD THEN i64_add(x, y)
                                                               ELSE i64_sub(x, y))
                      IN  IF Len(n) > INT_MAX_LEN
                          THEN EvalRes(self, changed, "panic: index out of bounds")
                          ELSE EvalRes(BytesE(n), TRUE, "none")
                 ELSE EvalRes(self, changed, "none")
        ELSE IF o = OP_EQUAL
        THEN LET a1 == self.args[1]
                 a2 == self.args[2]
             IN  IF a1.t = "Bytes" /\ a2.t = "Bytes"
                 THEN EvalRes(encode_bool_expr(a1.b = a2.b), TRUE, "none")
                 ELSE IF a1.t = "Op" /\ a2.t = "Bytes" /\ returns_boolean(a1.op)
                 THEN IF a2.b = <<1>> THEN EvalRes(a1, TRUE, "none")
                      ELSE IF a2.b = <<>> THEN EvalRes(OpE(OP_NOT, <<a1>>), TRUE, "none")
                      ELSE EvalRes(encode_bool_expr(FALSE), TRUE, "none")
                 ELSE EvalRes(self, changed, "none")
        ELSE IF o = OP_CHECKSIG
        THEN LET r == eval_checksig(self, c)
             IN  EvalRes(r.e, r.changed \/ changed, r.err)
        ELSE IF o = OP_CHECKMULTISIG /\ Len(keys(self)) = Len(sigs(self))
        THEN EvalRes(MultisigExpand(self), TRUE, "none")
        ELSE EvalRes(self, changed, "none")

RECURSIVE eval_(_, _, _)
RECURSIVE eval_args(_, _, _, _, _)
\* for arg in op.args_mut() { changed |= arg.eval_(ctx, depth + 1)?; }
eval_args(as, c, depth, i, changed) ==
    IF i > Len(as) THEN [args |-> as, changed |-> changed, err |-> "none"]
    ELSE LET r == eval_(as[i], c, depth + 1)
         IN  IF r.err # "none" THEN [args |-> as, changed |-> changed, err |-> r.err]
             ELSE eval_args([as EXCEPT ![i] = r.e], c, depth, i + 1, changed \/ r.changed)

eval_(self, c, depth) ==
    IF self.t # "Op" THEN EvalRes(self, FALSE, "none")
    ELSE LET ra == eval_args(self.args, c, depth, 1, FALSE)
         IN  IF ra.err # "none" THEN EvalRes(self, ra.changed, ra.err)
             ELSE eval_node([self EXCEPT !.args = ra.args], c, depth, ra.changed)

eval(self, c) == eval_(self, c, 0)

RECURSIVE replace_all(_, _, _)
replace_all(self, search, replace) ==
    IF search = self THEN replace
    ELSE IF self.t = "Op"
    THEN [self EXCEPT !.args = [i \in 1..Len(self.args) |-> replace_all(self.args[i], search, replace)]]
    ELSE self

\* The boolean replace_all returns: some subexpression equals search.
RECURSIVE contains(_, _)
contains(self, search) ==
    \/ search = self
    \/ /\ self.t = "Op"
       /\ \E i \in 1..Len(self.args) : contains(self.args[i], search)

(***************************************************************************)
(* ScriptAnalyzer::eval_conditions.  One pass of the outer loop ('i):      *)
(* sort, then scan j (and k inside) until a rule restarts the loop, an     *)
(* error is returned, or the scan ends (Ok).                               *)
(***************************************************************************)
Remove(s, i) == SubSeq(s, 1, i - 1) \o SubSeq(s, i + 1, Len(s))

PassRes(kind, es, error) == [kind |-> kind, exprs |-> es, err |-> error]

RECURSIVE scan_k(_, _, _)
scan_k(es, j, k) ==
    IF k > Len(es) THEN PassRes("next", es, "none")
    ELSE IF j = k THEN scan_k(es, j, k + 1)
    ELSE LET expr1 == es[j]
             expr2 == es[k]
         IN  IF expr1 = expr2 THEN PassRes("restart", Remove(es, k), "none")
             ELSE IF expr1.t # "Op" THEN scan_k(es, j, k + 1)
             ELSE IF IsNot(expr1.op) /\ expr1.args[1] = expr2
             THEN PassRes("err", es, "SCRIPT_ERR_UNKNOWN_ERROR")
             ELSE IF /\ IsNot(expr1.op)
                     /\ expr1.args[1].t = "Op"
                     /\ returns_boolean(expr1.args[1].op)
                     /\ contains(expr2, expr1.args[1])
             THEN PassRes("restart",
                          [es EXCEPT ![k] = replace_all(expr2, expr1.args[1], encode_bool_expr(FALSE))],
                          "none")
             ELSE IF expr1.op = OP_EQUAL /\ contains(expr2, expr1.args[1])
             THEN PassRes("restart",
                          [es EXCEPT ![k] = replace_all(expr2, expr1.args[1], expr1.args[2])],
                          "none")
             ELSE IF returns_boolean(expr1.op) /\ contains(expr2, expr1)
             THEN PassRes("restart",
                          [es EXCEPT ![k] = replace_all(expr2, expr1, encode_bool_expr(TRUE))],
                          "none")
             ELSE scan_k(es, j, k + 1)

RECURSIVE scan_j(_, _, _)
scan_j(es, j, c) ==
    IF j > Len(es) THEN PassRes("ok", es, "none")
    ELSE LET expr1 == es[j]
         IN  IF expr1.t = "Bytes"
             THEN IF decode_bool(expr1.b) THEN scan_j(Remove(es, j), j, c)
                  ELSE PassRes("err", es, "SCRIPT_ERR_UNKNOWN_ERROR")
             ELSE IF expr1.t = "Op" /\ expr1.op = OP_BOOLAND
             THEN PassRes("restart", Remove(es, j) \o expr1.args, "none")
             ELSE LET rk == scan_k(es, j, 1)
                  IN  IF rk.kind # "next" THEN rk
                      ELSE LET r == eval(expr1, c)
                           IN  IF r.err # "none" THEN PassRes("err", es, r.err)
                               ELSE IF r.changed
                               THEN PassRes("restart", [es EXCEPT ![j] = r.e], "none")
                               ELSE scan_j(es, j + 1, c)

\* The pass without the rule that splits a top-level OP_BOOLAND.
eval_conditions_pass_unsplit(es, c) ==
    LET r == scan_j(sort_recursive(es), 1, c)
    IN  IF r.kind = "restart" /\ Len(r.exprs) > Len(es)
        THEN PassRes("ok", sort_recursive(es), "none")
        ELSE r

\* The pass whose split leaves the OP_BOOLAND in the list.
eval_conditions_pass_copy(es, c) ==
    LET r == scan_j(sort_recursive(es), 1, c)
    IN  IF r.kind = "restart" /\ Len(r.exprs) > Len(es)
        THEN PassRes("restart",
                     sort_recursive(es) \o SubSeq(r.exprs, Len(es), Len(r.exprs)), "none")
        ELSE r

eval_conditions_pass(es, c) == scan_j(sort_recursive(es), 1, c)

(***************************************************************************)
(* script::stack::Stack -- the symbolic stack.  elements[1] is the bottom, *)
(* the last element is the top.  Reading below the bottom materialises     *)
(* fresh Stack(i) inputs at the bottom (grow_to).                          *)
(***************************************************************************)
Stack_new == [elements |-> <<>>, next_element_id |-> 0]

\* items_used that counts the elements now on the stack.
items_used_len(st) == Len(st.elements)

items_used(st) == st.next_element_id

\* grow_to that numbers the new elements from the bottom upwards.
grow_to_bottom_up(st, min_len) ==
    IF Len(st.elements) >= min_len THEN st
    ELSE [elements |-> [i \in 1..(min_len - Len(st.elements)) |->
                           StackE(st.next_element_id + i - 1)] \o st.elements,
          next_element_id |-> st.next_element_id + (min_len - Len(st.elements))]

\* grow_to that does not count the elements it adds.
grow_to_uncounted(st, min_len) ==
    IF Len(st.elements) >= min_len THEN st
    ELSE [st EXCEPT !.elements =
              [i \in 1..(min_len - Len(st.elements)) |-> StackE(st.next_element_id)] \o @]

grow_to(st, min_len) ==
    IF Len(st.elements) >= min_len THEN st
    ELSE LET to_insert == min_len - Len(st.elements)
             nid == st.next_element_id + to_insert
         IN  [elements |-> [i \in 1..to_insert |-> StackE(nid - (i - 1) - 1)] \o st.elements,
              next_element_id |-> nid]

\* Results of the stack operations: the stack afterwards and the value(s) read.
StackOut(st, out) == [st |-> st, out |-> out]

\* The operations below first grow the stack; the *_grown operators are the
\* rest of each operation, on the grown stack g.
get_back_grown(g, index) == StackOut(g, g.elements[Len(g.elements) - index])

get_back(st, index) == get_back_grown(grow_to(st, index + 1), index)

push(st, value) == [st EXCEPT !.elements = Append(@, value)]

extend_from_within_back_grown(g, amount, offset) ==
    [g EXCEPT !.elements =
         @ \o SubSeq(@, Len(@) - offset - amount + 1, Len(@) - offset)]

extend_from_within_back(st, amount, offset) ==
    extend_from_within_back_grown(grow_to(st, amount + offset), amount, offset)

remove_back_grown(g, index) ==
    StackOut([g EXCEPT !.elements = Remove(@, Len(@) - index)],
             g.elements[Len(g.elements) - index])

remove_back(st, index) == remove_back_grown(grow_to(st, index + 1), index)

swap_back_grown(g, x, y) ==
    [g EXCEPT !.elements = [@ EXCEPT ![Len(g.elements) - x] = g.elements[Len(g.elements) - y],
                                     ![Len(g.elements) - y] = g.elements[Len(g.elements) - x]]]

\* A swap_back that grows the stack and swaps nothing.
swap_back_grow_only(st, x, y) == grow_to(st, (IF x > y THEN x ELSE y) + 1)

swap_back(st, x, y) == swap_back_grown(grow_to(st, (IF x > y THEN x ELSE y) + 1), x, y)

Reverse(s) == [i \in 1..Len(s) |-> s[Len(s) - i + 1]]

\* pop that hands out the popped elements top-most first.
pop_grown_reversed(g, n) ==
    StackOut([g EXCEPT !.elements = SubSeq(@, 1, Len(@) - n)],
             Reverse(SubSeq(g.elements, Len(g.elements) - n + 1, Len(g.elements))))

\* pop::<N> and pop_to_box(amount): the top n elements, bottom-most first.
pop_grown(g, n) ==
    StackOut([g EXCEPT !.elements = SubSeq(@, 1, Len(@) - n)],
             SubSeq(g.elements, Len(g.elements) - n + 1, Len(g.elements)))

pop(st, n) == pop_grown(grow_to(st, n), n)

\* pop_to_box that hands out the popped elements top-most first.
pop_to_box_reversed(st, amount) == pop_grown_reversed(grow_to(st, amount), amount)

pop_to_box(st, amount) == pop_grown(grow_to(st, amount), amount)

(***************************************************************************)
(* ScriptAnalyzer: one path under analysis.  The script itself is shared   *)
(* by all paths and kept in an_script.                                     *)
(***************************************************************************)
from_script ==
    [stack |-> Stack_new, altstack |-> <<>>, spending_conditions |-> <<>>,
     script_offset |-> 0, cs |-> ConditionStack_new]

\* Result<_, ScriptError> of an analyzer method: the analyzer afterwards and
\* the error ("none" for Ok).
ARes(self, error) == [self |-> self, err |-> error]

\* verify after its pop: p is the result of stack.pop::<1>().
verify_popped(self, p, error) ==
    IF p.out[1].t = "Bytes"
    THEN ARes([self EXCEPT !.stack = p.st],
              IF ~decode_bool(p.out[1].b) THEN error ELSE "none")
    ELSE ARes([self EXCEPT !.stack = p.st,
                           !.spending_conditions = Append(@, p.out[1])], "none")

verify(self, error) == verify_popped(self, pop(self.stack, 1), error)

decode_int(bs, max_len) ==
    IF check_int(bs, max_len) # "none"
    THEN [err |-> check_int(bs, max_len), n |-> 0]
    ELSE [err |-> "none", n |-> decode_int_unchecked(bs)]

\* num_from_stack after its pop: the analyzer afterwards, the error and the number.
num_from_popped(self, top, d) ==
    IF top.t = "Bytes" THEN [self |-> self, err |-> d.err, n |-> d.n]
    ELSE [self |-> self, err |-> "SCRIPT_ERR_UNKNOWN_DEPTH", n |-> 0]

num_from_pop(self, p) ==
    num_from_popped([self EXCEPT !.stack = p.st], p.out[1], decode_int(p.out[1].b, 4))

num_from_stack(self) == num_from_pop(self, pop(self.stack, 1))

\* What one iteration of the analyze_path loop did: continue on this path
\* ("cont"), continue and start a forked path ("fork"), or return an error.
StepRes(kind, self, fork, error) ==
    [kind |-> kind, self |-> self, fork |-> fork, err |-> error]

Cont(self) == StepRes("cont", self, self, "none")

Fail(self, error) == StepRes("err", self, self, error)

FromARes(r) == IF r.err = "none" THEN Cont(r.self) ELSE Fail(r.self, r.err)

Opcode1_of(op) ==
    IF op = OP_HASH160 THEN OP_RIPEMD160 ELSE IF op = OP_HASH256 THEN OP_SHA256 ELSE op

Opcode2_of(op) ==
    IF op = OP_1ADD THEN OP_ADD
    ELSE IF op = OP_1SUB THEN OP_SUB
    ELSE IF op = OP_NUMEQUALVERIFY THEN OP_NUMEQUAL
    ELSE IF op = OP_GREATERTHAN THEN OP_LESSTHAN
    ELSE IF op = OP_GREATERTHANOREQUAL THEN OP_LESSTHANOREQUAL
    ELSE op

\* The expression an opcode pushes, built from the elements es it popped.
expr_of(op, es) ==
    IF op \in {OP_EQUAL, OP_EQUALVERIFY} THEN OpE(OP_EQUAL, es)
    ELSE IF op \in {OP_1ADD, OP_1SUB} THEN OpE(Opcode2_of(op), <<es[1], BytesE(<<1>>)>>)
    ELSE IF op = OP_NEGATE THEN OpE(OP_SUB, <<BytesE(<<>>), es[1]>>)
    ELSE IF op \in {OP_ABS, OP_NOT, OP_0NOTEQUAL, OP_WITHIN, OP_RIPEMD160, OP_SHA1, OP_SHA256}
    THEN OpE(op, es)
    ELSE IF op \in {OP_HASH160, OP_HASH256} THEN OpE(Opcode1_of(op), <<OpE(OP_SHA256, es)>>)
    ELSE IF op \in {OP_CHECKSIG, OP_CHECKSIGVERIFY} THEN OpE(OP_CHECKSIG, es)
    ELSE IF op = OP_CHECKSIGADD
    THEN OpE(OP_ADD, <<es[2], OpE(OP_CHECKSIG, <<es[1], es[3]>>)>>)
    ELSE OpE(Opcode2_of(op),
             IF op \in {OP_GREATERTHAN, OP_GREATERTHANOREQUAL} THEN <<es[2], es[1]>> ELSE es)

\* Pop n elements and push the expression the opcode builds from them.
PushBuilt(self, p, op) == [self EXCEPT !.stack = push(p.st, expr_of(op, p.out))]

PopPush(self, n, op) == PushBuilt(self, pop(self.stack, n), op)

minimal_if(c) ==
    \/ c.version = "SegwitV1"
    \/ c.version = "SegwitV0" /\ c.rules = "All"

\* Conditions that say "elem is true" on both paths.
if_condition_true(elem, v, c) ==
    IF minimal_if(c)
    THEN expr_with_error(OP_EQUAL, <<elem, encode_bool_expr(TRUE)>>,
                         IF c.version = "SegwitV1" THEN "SCRIPT_ERR_TAPSCRIPT_MINIMALIF"
                         ELSE "SCRIPT_ERR_MINIMALIF")
    ELSE elem

\* The condition pushed at OP_IF / OP_NOTIF on the path where elem has truth value v.
if_condition(elem, v, c) ==
    IF minimal_if(c)
    THEN expr_with_error(OP_EQUAL, <<elem, encode_bool_expr(v)>>,
                         IF c.version = "SegwitV1" THEN "SCRIPT_ERR_TAPSCRIPT_MINIMALIF"
                         ELSE "SCRIPT_ERR_MINIMALIF")
    ELSE IF v THEN elem ELSE OpE(OP_INTERNAL_NOT, <<elem>>)

\* A fork that starts over at the forking opcode.
if_fork_at_opcode(popped, elem, op, c) ==
    StepRes("fork",
            [popped EXCEPT !.cs = push_back(@, op = OP_IF),
                           !.spending_conditions = Append(@, if_condition(elem, TRUE, c))],
            [popped EXCEPT !.cs = push_back(@, op # OP_IF),
                           !.spending_conditions = Append(@, if_condition(elem, FALSE, c)),
                           !.script_offset = @ - 1],
            "none")

\* OP_IF / OP_NOTIF when executed: popped is the analyzer after the pop (and
\* the state the fork is cloned from), elem the popped element.
if_fork(popped, elem, op, c) ==
    StepRes("fork",
            [popped EXCEPT !.cs = push_back(@, op = OP_IF),
                           !.spending_conditions = Append(@, if_condition(elem, TRUE, c))],
            [popped EXCEPT !.cs = push_back(@, op # OP_IF),
                           !.spending_conditions = Append(@, if_condition(elem, FALSE, c))],
            "none")

if_popped(self, p, op, c) == if_fork([self EXCEPT !.stack = p.st], p.out[1], op, c)

op_if(self, op, c) ==
    IF all_true(self.cs) THEN if_popped(self, pop(self.stack, 1), op, c)
    ELSE Cont([self EXCEPT !.cs = push_back(@, FALSE)])

ifdup_fork(grown, elem) ==
    StepRes("fork",
            [grown EXCEPT !.spending_conditions = Append(@, elem),
                          !.stack = push(@, elem)],
            [grown EXCEPT !.spending_conditions = Append(@, OpE(OP_INTERNAL_NOT, <<elem>>))],
            "none")

ifdup_got(self, g) == ifdup_fork([self EXCEPT !.stack = g.st], g.out)

op_ifdup(self) == ifdup_got(self, get_back(self.stack, 0))

PushOut(self, so) == [self EXCEPT !.stack = push(so.st, so.out)]

pick_roll_at(self, index, op) ==
    IF index < 0 THEN Fail(self, "SCRIPT_ERR_INVALID_STACK_OPERATION")
    ELSE IF op = OP_PICK THEN Cont(PushOut(self, get_back(self.stack, index)))
    ELSE Cont(PushOut(self, remove_back(self.stack, index)))

pick_roll_from(r, op) ==
    IF r.err # "none" THEN Fail(r.self, r.err) ELSE pick_roll_at(r.self, r.n, op)

op_pick_roll(self, op) == pick_roll_from(num_from_stack(self), op)

\* OP_CHECKMULTISIG(VERIFY), stage by stage: k and s are the results of the two
\* num_from_stack calls, pks and sgs of the two pop_to_box calls, d of the pop
\* of the dummy element.
multisig_done(pushed, op) ==
    IF op = OP_CHECKMULTISIGVERIFY
    THEN FromARes(verify(pushed, "SCRIPT_ERR_CHECKMULTISIGVERIFY"))
    ELSE Cont(pushed)

multisig_dummy(self, d, sigs_, pks, op, c) ==
    multisig_done(
        [self EXCEPT
            !.stack = push(d.st, MultisigE(sigs_ \o pks, Len(sigs_))),
            !.spending_conditions =
                IF c.rules = "All"
                THEN Append(@, expr_with_error(OP_EQUAL, <<d.out[1], BytesE(<<>>)>>,
                                               "SCRIPT_ERR_SIG_NULLDUMMY"))
                ELSE @],
        op)

multisig_sigs(self, sgs, pks, op, c) ==
    multisig_dummy(self, pop(sgs.st, 1), sgs.out, pks, op, c)

multisig_scount(s, kcount, pks, op, c) ==
    IF s.err # "none" THEN Fail(s.self, s.err)
    ELSE IF ~(0 <= s.n /\ s.n <= kcount) THEN Fail(s.self, "SCRIPT_ERR_SIG_COUNT")
    ELSE multisig_sigs(s.self, pop_to_box(s.self.stack, s.n), pks, op, c)

multisig_keys(self, kcount, pks, op, c) ==
    multisig_scount(num_from_stack([self EXCEPT !.stack = pks.st]), kcount, pks.out, op, c)

\* A key count check that lets 21 keys pass.
multisig_kcount_21(k, op, c) ==
    IF k.err # "none" THEN Fail(k.self, k.err)
    ELSE IF ~(0 <= k.n /\ k.n <= 21) THEN Fail(k.self, "SCRIPT_ERR_PUBKEY_COUNT")
    ELSE multisig_keys(k.self, k.n, pop_to_box(k.self.stack, k.n), op, c)

multisig_kcount(k, op, c) ==
    IF k.err # "none" THEN Fail(k.self, k.err)
    ELSE IF ~(0 <= k.n /\ k.n <= 20) THEN Fail(k.self, "SCRIPT_ERR_PUBKEY_COUNT")
    ELSE multisig_keys(k.self, k.n, pop_to_box(k.self.stack, k.n), op, c)

op_checkmultisig(self, op, c) ==
    IF c.version = "SegwitV1" THEN Fail(self, "SCRIPT_ERR_TAPSCRIPT_CHECKMULTISIG")
    ELSE multisig_kcount(num_from_stack(self), op, c)

MAX_STACK_SIZE == 1000

WithStack(self, st) == [self EXCEPT !.stack = st]

\* The verifying variant of an opcode runs verify on the pushed result.
verify_if(verifying, pushed, error) ==
    IF verifying THEN FromARes(verify(pushed, error)) ELSE Cont(pushed)

to_altstack(self, p) == [self EXCEPT !.stack = p.st, !.altstack = Append(@, p.out[1])]

push_size(self, g) ==
    [self EXCEPT !.stack =
        push(g.st, IF g.out.t = "Bytes" THEN encode_int_expr(Len(g.out.b))
                   ELSE OpE(OP_SIZE, <<g.out>>))]

push_locktime_condition(self, g, op) ==
    [self EXCEPT !.stack = g.st, !.spending_conditions = Append(@, OpE(op, <<g.out>>))]

\* The `match op` of analyze_path for an opcode that is executed.
exec_opcode(self, op, c) ==
    LET st == self.stack
    IN  IF op = OP_0 THEN Cont(WithStack(self, push(st, BytesE(<<>>))))
        ELSE IF op = OP_1NEGATE THEN Cont(WithStack(self, push(st, BytesE(<<129>>))))
        ELSE IF op >= OP_1 /\ op <= OP_16
        THEN Cont(WithStack(self, push(st, BytesE(<<op - 80>>))))
        ELSE IF op = OP_NOP THEN Cont(self)
        ELSE IF op \in {OP_IF, OP_NOTIF} THEN op_if(self, op, c)
        ELSE IF op = OP_ELSE
        THEN IF empty(self.cs) THEN Fail(self, "SCRIPT_ERR_UNBALANCED_CONDITIONAL")
             ELSE Cont([self EXCEPT !.cs = toggle_top(@)])
        ELSE IF op = OP_ENDIF
        THEN IF empty(self.cs) THEN Fail(self, "SCRIPT_ERR_UNBALANCED_CONDITIONAL")
             ELSE Cont([self EXCEPT !.cs = pop_back(@)])
        ELSE IF op = OP_VERIFY THEN FromARes(verify(self, "SCRIPT_ERR_VERIFY"))
        ELSE IF op = OP_RETURN THEN Fail(self, "SCRIPT_ERR_OP_RETURN")
        ELSE IF op = OP_TOALTSTACK THEN Cont(to_altstack(self, pop(st, 1)))
        ELSE IF op = OP_FROMALTSTACK
        THEN IF self.altstack = <<>>
             THEN Fail(self, "SCRIPT_ERR_INVALID_ALTSTACK_OPERATION")
             ELSE Cont([self EXCEPT
                            !.stack = push(@, self.altstack[Len(self.altstack)]),
                            !.altstack = SubSeq(@, 1, Len(@) - 1)])
        ELSE IF op = OP_2DROP THEN Cont(WithStack(self, pop(st, 2).st))
        ELSE IF op = OP_2DUP THEN Cont(WithStack(self, extend_from_within_back(st, 2, 0)))
        ELSE IF op = OP_3DUP THEN Cont(WithStack(self, extend_from_within_back(st, 3, 0)))
        ELSE IF op = OP_2OVER THEN Cont(WithStack(self, extend_from_within_back(st, 2, 2)))
        ELSE IF op = OP_2ROT
        THEN Cont(WithStack(self,
                 swap_back(swap_back(swap_back(swap_back(st, 0, 2), 1, 3), 2, 4), 3, 5)))
        ELSE IF op = OP_2SWAP
        THEN Cont(WithStack(self, swap_back(swap_back(st, 0, 2), 1, 3)))
        ELSE IF op = OP_IFDUP THEN op_ifdup(self)
        ELSE IF op = OP_DEPTH
        THEN Cont(WithStack(self, push(st, encode_int_expr(Len(st.elements)))))
        ELSE IF op = OP_DROP THEN Cont(WithStack(self, pop(st, 1).st))
        ELSE IF op = OP_DUP THEN Cont(WithStack(self, extend_from_within_back(st, 1, 0)))
        ELSE IF op = OP_NIP THEN Cont(WithStack(self, remove_back(st, 1).st))
        ELSE IF op = OP_OVER THEN Cont(WithStack(self, extend_from_within_back(st, 1, 1)))
        ELSE IF op \in {OP_PICK, OP_ROLL} THEN op_pick_roll(self, op)
        ELSE IF op = OP_ROT THEN Cont(WithStack(self, swap_back(swap_back(st, 2, 1), 1, 0)))
        ELSE IF op = OP_SWAP THEN Cont(WithStack(self, swap_back(st, 0, 1)))
        ELSE IF op = OP_TUCK
        THEN Cont(WithStack(self, extend_from_within_back(swap_back(st, 0, 1), 1, 1)))
        ELSE IF op = OP_SIZE THEN Cont(push_size(self, get_back(st, 0)))
        ELSE IF op \in {OP_EQUAL, OP_EQUALVERIFY}
        THEN verify_if(op = OP_EQUALVERIFY, PopPush(self, 2, op), "SCRIPT_ERR_EQUALVERIFY")
        ELSE IF op \in {OP_1ADD, OP_1SUB} THEN Cont(PopPush(self, 1, op))
        ELSE IF op = OP_NEGATE THEN Cont(PopPush(self, 1, op))
        ELSE IF op \in {OP_ABS, OP_NOT, OP_0NOTEQUAL} THEN Cont(PopPush(self, 1, op))
        ELSE IF op \in {OP_ADD, OP_SUB, OP_BOOLAND, OP_BOOLOR, OP_NUMEQUAL,
                        OP_NUMEQUALVERIFY, OP_NUMNOTEQUAL, OP_LESSTHAN, OP_GREATERTHAN,
                        OP_LESSTHANOREQUAL, OP_GREATERTHANOREQUAL, OP_MIN, OP_MAX}
        THEN verify_if(op = OP_NUMEQUALVERIFY, PopPush(self, 2, op),
                       "SCRIPT_ERR_NUMEQUALVERIFY")
        ELSE IF op = OP_WITHIN THEN Cont(PopPush(self, 3, op))
        ELSE IF op \in {OP_RIPEMD160, OP_SHA1, OP_SHA256} THEN Cont(PopPush(self, 1, op))
        ELSE IF op \in {OP_HASH160, OP_HASH256} THEN Cont(PopPush(self, 1, op))
        ELSE IF op = OP_CODESEPARATOR THEN Cont(self)
        ELSE IF op \in {OP_CHECKSIG, OP_CHECKSIGVERIFY}
        THEN verify_if(op = OP_CHECKSIGVERIFY, PopPush(self, 2, op),
                       "SCRIPT_ERR_CHECKSIGVERIFY")
        ELSE IF op \in {OP_CHECKMULTISIG, OP_CHECKMULTISIGVERIFY}
        THEN op_checkmultisig(self, op, c)
        ELSE IF op \in {OP_CHECKLOCKTIMEVERIFY, OP_CHECKSEQUENCEVERIFY}
        THEN Cont(push_locktime_condition(self, get_back(st, 0), op))
        ELSE IF op \in {OP_NOP1, OP_NOP4, OP_NOP5, OP_NOP6, OP_NOP7, OP_NOP8, OP_NOP9,
                        OP_NOP10}
        THEN Cont(self)
        ELSE IF op = OP_CHECKSIGADD
        THEN IF c.version # "SegwitV1" THEN Fail(self, "SCRIPT_ERR_BAD_OPCODE")
             ELSE Cont(PopPush(self, 3, op))
        ELSE Fail(self, "SCRIPT_ERR_BAD_OPCODE")

\* The stack-size check that ends an iteration of the analyze_path loop.
check_stack_size(r) ==
    IF r.kind = "err" THEN r
    ELSE IF Len(r.self.stack.elements) + Len(r.self.altstack) > MAX_STACK_SIZE
    THEN IF r.kind = "fork"
         THEN StepRes("fork", r.self, r.fork, "SCRIPT_ERR_STACK_SIZE")
         ELSE Fail(r.self, "SCRIPT_ERR_STACK_SIZE")
    ELSE r

\* An element that is executed: adv is the analyzer with script_offset advanced.
exec_elem(adv, el, c) ==
    IF el.t = "Bytes" THEN Cont(WithStack(adv, push(adv.stack, BytesE(el.b))))
    ELSE exec_opcode(adv, el.op, c)

\* A loop head that leaves the offset where it is.
advance_not(self) == self

\* self.script_offset += 1
advance(self) == [self EXCEPT !.script_offset = @ + 1]

\* A loop body without the skip of elements in a branch that is not executed.
analyze_path_step_no_skip(self, el, c) == check_stack_size(exec_elem(advance(self), el, c))

\* One iteration of the `while` loop of analyze_path on script element el.
analyze_path_step(self, el, c) ==
    IF ~all_true(self.cs) /\ (el.t = "Bytes" \/ el.op < OP_IF \/ el.op > OP_ENDIF)
    THEN Cont(advance(self))
    ELSE check_stack_size(exec_elem(advance(self), el, c))

\* The checks of analyze_path after the last script element.
analyze_path_end(self, c) ==
    IF ~empty(self.cs) THEN ARes(self, "SCRIPT_ERR_UNBALANCED_CONDITIONAL")
    ELSE IF /\ Len(self.stack.elements) > 1
            /\ ~(c.version = "Legacy" /\ c.rules = "ConsensusOnly")
    THEN ARes(self, "SCRIPT_ERR_CLEANSTACK")
    ELSE verify(self, "SCRIPT_ERR_EVAL_FALSE")

(***************************************************************************)
(* util::locktime and ScriptAnalyzer::calculate_locktime_requirements.     *)
(***************************************************************************)
SEQUENCE_LOCKTIME_TYPE_FLAG == 4194304

SEQUENCE_LOCKTIME_MASK == 65535

LOCKTIME_THRESHOLD == 500000000

\* min_value > u32::MAX, for a non-negative number of at most 5 bytes: the
\* magnitude has a bit at or above bit 32.
above_u32_max(bs) == Len(bs) = 5 /\ bs[5] % 128 # 0

\* A sign test that takes no operand for negative.
is_negative_never(bs) == FALSE

\* min_value < 0, read off the operand: decode_int_unchecked gives a negative
\* number exactly when the sign bit is set and the magnitude is not zero.
is_negative(bs) ==
    /\ bs # <<>> /\ bs[Len(bs)] >= 128
    /\ (bs[Len(bs)] > 128 \/ \E i \in 1..(Len(bs) - 1) : bs[i] # 0)

LocktimeType_new(value, relative) ==
    IF value < (IF relative THEN SEQUENCE_LOCKTIME_TYPE_FLAG ELSE LOCKTIME_THRESHOLD)
    THEN "Height" ELSE "Time"

locktime_type_equals(x, y, relative) ==
    LocktimeType_new(x, relative) = LocktimeType_new(y, relative)

\* (min_value as u32) & (SEQUENCE_LOCKTIME_TYPE_FLAG | SEQUENCE_LOCKTIME_MASK)
sequence_bits(min_value) ==
    (min_value % (SEQUENCE_LOCKTIME_MASK + 1))
    + ((min_value \div SEQUENCE_LOCKTIME_TYPE_FLAG) % 2) * SEQUENCE_LOCKTIME_TYPE_FLAG

\* req is meaningful only when has_req (Option<u32>).
LocktimeRequirement_new == [exprs |-> <<>>, has_req |-> FALSE, req |-> 0]

LockRes(error, l, q, conds) ==
    [err |-> error, locktime_req |-> l, sequence_req |-> q, spending_conditions |-> conds]

\* A merge in which the literal seen last replaces the requirement.
add_requirement_last(r, arg, relative) ==
    IF is_negative(arg.b) \/ above_u32_max(arg.b)
    THEN [err |-> "SCRIPT_ERR_UNSATISFIED_LOCKTIME", r |-> r]
    ELSE [err |-> "none", r |-> [r EXCEPT !.has_req = TRUE, !.req = decode_int(arg.b, 5).n]]

add_requirement(r, arg, relative) ==
    LET d == decode_int(arg.b, 5)
        min_value == IF relative THEN sequence_bits(d.n) ELSE d.n
    IN  IF arg.t # "Bytes" THEN [err |-> "none", r |-> [r EXCEPT !.exprs = Append(@, arg)]]
        ELSE IF check_int(arg.b, 5) # "none" THEN [err |-> check_int(arg.b, 5), r |-> r]
        ELSE IF is_negative(arg.b) THEN [err |-> "SCRIPT_ERR_NEGATIVE_LOCKTIME", r |-> r]
        ELSE IF ~relative /\ above_u32_max(arg.b)
        THEN [err |-> "SCRIPT_ERR_UNSATISFIED_LOCKTIME", r |-> r]
        ELSE IF r.has_req
        THEN IF ~locktime_type_equals(r.req, min_value, relative)
             THEN [err |-> "SCRIPT_ERR_UNSATISFIED_LOCKTIME", r |-> r]
             ELSE [err |-> "none",
                   r |-> [r EXCEPT !.req = IF @ < min_value THEN min_value ELSE @]]
        ELSE [err |-> "none", r |-> [r EXCEPT !.has_req = TRUE, !.req = min_value]]

RECURSIVE locktime_scan(_, _, _, _)
locktime_scan(conds, i, l, q) ==
    IF i > Len(conds) THEN LockRes("none", l, q, conds)
    ELSE LET expr == conds[i]
             relative == expr.op = OP_CHECKSEQUENCEVERIFY
             a == add_requirement(IF relative THEN q ELSE l, expr.args[1], relative)
         IN  IF expr.t = "Op"
                /\ expr.op \in {OP_CHECKLOCKTIMEVERIFY, OP_CHECKSEQUENCEVERIFY}
             THEN IF a.err # "none" THEN LockRes(a.err, l, q, conds)
                  ELSE locktime_scan(Remove(conds, i), i,
                                     IF relative THEN l ELSE a.r,
                                     IF relative THEN a.r ELSE q)
             ELSE locktime_scan(conds, i + 1, l, q)

calculate_locktime_requirements(self) ==
    locktime_scan(self.spending_conditions, 1,
                  LocktimeRequirement_new, LocktimeRequirement_new)

\* The AnalyzerResult built by analyze_script from a surviving path.
AnalyzerResult(self, lr) ==
    [locktime_req |-> lr.locktime_req, sequence_req |-> lr.sequence_req,
     stack_size |-> items_used(self.stack),
     spending_conditions |-> lr.spending_conditions]

(***************************************************************************)
(* Idle values: each specification below drives one group of variables and *)
(* leaves the other groups at these values.                                *)
(***************************************************************************)
NoCtx == [version |-> "Legacy", rules |-> "ConsensusOnly"]

IdleCS == cs = ConditionStack_new /\ vec = <<>> /\ cs_last = "new"

IdleParse ==
    /\ p_bytes = <<>> /\ p_offset = 0 /\ p_a = <<>>
    /\ p_res = ParseRes("idle", 0, 0) /\ p_ret = [done |-> FALSE, bytes |-> <<>>]

IdleSort ==
    /\ s_exprs = <<>> /\ s_out = <<>> /\ s_pc = "idle"
    /\ s_ord = [x |-> BytesE(<<>>), y |-> BytesE(<<>>), ord |-> 0]

IdleEval ==
    /\ ec_conds = <<>> /\ ec_ctx = NoCtx /\ ec_pc = "idle" /\ ec_err = "none" /\ ec_seen = {}
    /\ ec_init = <<>>

IdleAn ==
    /\ an_script = <<>> /\ an_ctx = NoCtx /\ an_pc = "idle" /\ an_frames = <<>>
    /\ an_results = <<>> /\ an_reported = <<>> /\ an_ret = "none" /\ an_log = <<>>
    /\ an_created = 0

IdleCodec ==
    /\ cd_kind = "idle" /\ cd_n = 0 /\ cd_b = <<>>
    /\ cd_int = [err |-> "none", n |-> 0] /\ cd_bool = FALSE /\ cd_pc = "idle"

IdlePool ==
    /\ pl_script = <<>> /\ pl_ctx = NoCtx /\ pl_workers = 0 /\ pl_chan = <<>>
    /\ pl_senders = 0 /\ pl_recv_lock = {} /\ pl_results_lock = {}
    /\ pl_thr = <<>> /\ pl_results = <<>> /\ pl_out = <<>> /\ pl_runs = <<>>

IdleStack == sk_st = Stack_new /\ sk_hand = <<>> /\ sk_n = 0 /\ sk_made = <<>>

IdleLock ==
    /\ lk_conds = <<>> /\ lk_other = <<>> /\ lk_pc = <<"idle", "idle", "idle">>
    /\ lk_res = <<>> /\ lk_res_other = <<>> /\ lk_ret = <<>>

IdleName == nm_name = <<>> /\ nm_row = 0 /\ nm_out = <<>> /\ nm_pc = "idle"

IdleOp == so_self = from_script /\ so_ref = <<>> /\ so_last = 0 /\ so_n = 0

IdleFold ==
    /\ fo_expr = BytesE(<<>>)
    /\ fo_ctx = [version |-> "Legacy", rules |-> "All"]
    /\ fo_res = EvalRes(BytesE(<<>>), FALSE, "none")
    /\ fo_pc = "idle"

IdlePick == pr_st = Stack_new /\ pr_index = 0 /\ pr_op = 0 /\ pr_pc = "idle" /\ pr_n = 0

IdleRest == IdleCodec /\ IdlePool /\ IdleStack /\ IdleLock /\ IdleName /\ IdleOp /\ IdleFold /\ IdlePick

\* The variables and idle values of the specifications above SpecCodec.
coreVars == <<csVars, parseVars, sortVars, evalVars, anVars>>

IdleCore == IdleCS /\ IdleParse /\ IdleSort /\ IdleEval /\ IdleAn

(***************************************************************************)
(* SpecCS: ConditionStack driven by push_back / pop_back / toggle_top, as  *)
(* analyze_path drives it (OP_ELSE and OP_ENDIF return an error before     *)
(* touching an empty stack).  vec is the vector of booleans it abstracts.  *)
(***************************************************************************)
MaxCS == 6

InitCS == IdleCS /\ IdleParse /\ IdleSort /\ IdleEval /\ IdleAn
    /\ IdleRest

CsPush(f) ==
    /\ Len(vec) < MaxCS
    /\ cs' = push_back(cs, f)
    /\ vec' = Append(vec, f)
    /\ cs_last' = "push_back"
    /\ UNCHANGED <<parseVars, sortVars, evalVars, anVars, restVars>>

CsPop ==
    /\ ~empty(cs)
    /\ cs' = pop_back(cs)
    /\ vec' = SubSeq(vec, 1, Len(vec) - 1)
    /\ cs_last' = "pop_back"
    /\ UNCHANGED <<parseVars, sortVars, evalVars, anVars, restVars>>

CsToggle ==
    /\ ~empty(cs)
    /\ cs' = toggle_top(cs)
    /\ vec' = [vec EXCEPT ![Len(vec)] = ~@]
    /\ cs_last' = "toggle_top"
    /\ UNCHANGED <<parseVars, sortVars, evalVars, anVars, restVars>>

NextCS == (\E f \in BOOLEAN : CsPush(f)) \/ CsPop \/ CsToggle

SpecCS == InitCS /\ [][NextCS]_vars

\* C8: ConditionStack refines a vector of booleans: empty() holds exactly
\* when the vector is empty and all_true() exactly when the vector contains
\* no false, after any sequence of push_back, pop_back and toggle_top.
C8_Refinement ==
    /\ empty(cs) <=> (vec = <<>>)
    /\ all_true(cs) <=> (\A i \in 1..Len(vec) : vec[i])

\* A false below the top was popped back to: the stack holds a true entry
\* again after a pop_back removed the first false.
C8_Witness ==
    /\ cs_last = "pop_back"
    /\ Len(vec) >= 2
    /\ all_true(cs)
    /\ \A i \in 1..Len(vec) : vec[i]

(***************************************************************************)
(* SpecParse: parse_from_bytes run one loop iteration at a time on a byte  *)
(* string, followed by to_bytes on the parsed script.                      *)
(***************************************************************************)
MaxLen == 4

\* OP_0, direct pushes of 1 and 2 bytes, OP_PUSHDATA1, OP_PUSHDATA2,
\* OP_PUSHDATA4, OP_1, a byte without an opcode name and the internal opcode.
ParseAlphabet ==
    {0, 1, 2, OP_PUSHDATA1, OP_PUSHDATA2, OP_PUSHDATA4, OP_1, 187, OP_INTERNAL_NOT}

\* No four bytes behind an OP_PUSHDATA4 byte spell a length of 2^31 or more.
LengthsFit(bs) ==
    \A i \in 1..Len(bs) : bs[i] = OP_PUSHDATA4 /\ i + 4 <= Len(bs) => bs[i + 4] < 128

\* Inputs with a whole OP_PUSHDATA4 length field: pushes of no byte and of one
\* byte, and pushes that declare 2 and 256 bytes where one byte is left.
ParseLonger ==
    {<<OP_PUSHDATA4, 0, 0, 0, 0>>, <<OP_PUSHDATA4, 1, 0, 0, 0, OP_INTERNAL_NOT>>,
     <<OP_PUSHDATA4, 2, 0, 0, 0, 1>>, <<OP_1, OP_PUSHDATA4, 0, 1, 0, 0, OP_1>>}

RECURSIVE SeqsUpTo(_, _)
SeqsUpTo(S, n) ==
    IF n = 0 THEN {<<>>}
    ELSE LET shorter == SeqsUpTo(S, n - 1)
         IN  shorter \cup {Append(q, x) : q \in {r \in shorter : Len(r) = n - 1}, x \in S}

InitParse ==
    /\ p_bytes \in {bs \in SeqsUpTo(ParseAlphabet, MaxLen) : LengthsFit(bs)} \cup ParseLonger
    /\ p_offset = 0 /\ p_a = <<>>
    /\ p_res = ParseRes("run", 0, 0) /\ p_ret = [done |-> FALSE, bytes |-> <<>>]
    /\ IdleCS /\ IdleSort /\ IdleEval /\ IdleAn
    /\ IdleRest

\* One iteration of the while loop: an element is pushed or an error returned.
ParseStep ==
    /\ p_res.kind = "run"
    /\ p_offset < Len(p_bytes)
    /\ LET st == parse_step(p_bytes, p_offset)
       IN  /\ p_res' = st.res
           /\ p_offset' = st.off
           /\ p_a' = p_a \o st.elem
    /\ UNCHANGED <<p_bytes, p_ret, csVars, sortVars, evalVars, anVars, restVars>>

\* The loop condition fails: Ok(OwnedScript(a)).
ParseReturn ==
    /\ p_res.kind = "run"
    /\ p_offset >= Len(p_bytes)
    /\ p_res' = ParseRes("ok", 0, 0)
    /\ UNCHANGED <<p_bytes, p_offset, p_a, p_ret, csVars, sortVars, evalVars, anVars, restVars>>

ToBytes ==
    /\ p_res.kind = "ok"
    /\ ~p_ret.done
    /\ p_ret' = [done |-> TRUE, bytes |-> to_bytes(p_a)]
    /\ UNCHANGED <<p_bytes, p_offset, p_a, p_res, csVars, sortVars, evalVars, anVars, restVars>>

NextParse == ParseStep \/ ParseReturn \/ ToBytes

SpecParse == InitParse /\ [][NextParse]_vars

\* C2: parser round-trip: for every byte string the parser accepts,
\* to_bytes of the parsed script is that byte string again.
C2_RoundTrip == p_ret.done => p_ret.bytes = p_bytes

(***************************************************************************)
(* SpecSort: Expr::sort_recursive applied to a list of expressions, and    *)
(* Ord::cmp applied to two of its elements.                                *)
(***************************************************************************)
MaxSortLen == 2

SortAtoms == {StackE(0), StackE(1), BytesE(<<>>), BytesE(<<1>>)}

SortLeaves == {StackE(0), StackE(1), BytesE(<<1>>)}

SortDepth1 ==
    {OpE(o, <<x, y>>) : o \in {OP_ADD, OP_SUB, OP_EQUAL}, x \in SortLeaves, y \in SortLeaves}
    \cup {OpE(OP_NOT, <<x>>) : x \in SortLeaves}

SortDepth2 ==
    {OpE(OP_ADD, <<x, y>>) :
        x \in {OpE(OP_ADD, <<StackE(1), StackE(0)>>), OpE(OP_SUB, <<StackE(1), StackE(0)>>)},
        y \in {OpE(OP_ADD, <<StackE(0), BytesE(<<1>>)>>), StackE(0), BytesE(<<1>>)}}

\* Expressions that differ from another one only in the error they carry
\* or in where the keys of a Multisig begin.
SortTagged ==
    {expr_with_error(OP_EQUAL, <<StackE(0), BytesE(<<1>>)>>, "SCRIPT_ERR_MINIMALIF"),
     MultisigE(<<StackE(0), StackE(1), BytesE(<<1>>), BytesE(<<1>>)>>, 1),
     MultisigE(<<StackE(0), StackE(1), BytesE(<<1>>), BytesE(<<1>>)>>, 2)}

SortUniverse == SortAtoms \cup SortDepth1 \cup SortDepth2 \cup SortTagged

InitSort ==
    /\ s_exprs \in SeqsUpTo(SortUniverse, MaxSortLen)
    /\ s_out = <<>> /\ s_pc = "init"
    /\ s_ord = [x |-> BytesE(<<>>), y |-> BytesE(<<>>), ord |-> 0]
    /\ IdleCS /\ IdleParse /\ IdleEval /\ IdleAn
    /\ IdleRest

SortRecursive ==
    /\ s_pc = "init"
    /\ s_out' = sort_recursive(s_exprs)
    /\ s_pc' = "sorted"
    /\ UNCHANGED <<s_exprs, s_ord, csVars, parseVars, evalVars, anVars, restVars>>

Compare(i, j) ==
    /\ s_pc = "init"
    /\ s_ord' = [x |-> s_exprs[i], y |-> s_exprs[j], ord |-> cmp(s_exprs[i], s_exprs[j])]
    /\ s_pc' = "compared"
    /\ UNCHANGED <<s_exprs, s_out, csVars, parseVars, evalVars, anVars, restVars>>

NextSort ==
    SortRecursive \/ (\E i \in 1..Len(s_exprs) : \E j \in 1..Len(s_exprs) : Compare(i, j))

SpecSort == InitSort /\ [][NextSort]_vars

NonDecreasing(es) == \A i \in 1..(Len(es) - 1) : cmp(es[i], es[i + 1]) <= 0

RECURSIVE ArgsNonDecreasing(_)
ArgsNonDecreasing(e) ==
    e.t = "Op" =>
        /\ can_reorder_args(e.op) => NonDecreasing(e.args)
        /\ \A i \in 1..Len(e.args) : ArgsNonDecreasing(e.args[i])

\* C9: after one call of sort_recursive the list is non-decreasing under the
\* total order, and so is the argument list of every Op node in it whose
\* opcode can_reorder_args.
C9_SortedAfterSortRecursive ==
    s_pc = "sorted" =>
        /\ NonDecreasing(s_out)
        /\ \A i \in 1..Len(s_out) : ArgsNonDecreasing(s_out[i])

\* Position of a variant in the order the documentation states (Bytes first).
DocumentedRank(e) == IF e.t = "Bytes" THEN 0 ELSE IF e.t = "Stack" THEN 1 ELSE 2

\* Position of a variant in the order cmp implements (Op first).
ImplementedRank(e) == IF e.t = "Op" THEN 0 ELSE IF e.t = "Stack" THEN 1 ELSE 2

\* C10 as stated: between expressions of different variants, Bytes sorts
\* before Stack and Stack sorts before Op.
C10_BytesStackOp ==
    (s_pc = "compared" /\ s_ord.x.t # s_ord.y.t) =>
        s_ord.ord = CmpInt(DocumentedRank(s_ord.x), DocumentedRank(s_ord.y))

\* C10 amended: between expressions of different variants, Op sorts before
\* Stack and Stack sorts before Bytes.
C10_OpStackBytes ==
    (s_pc = "compared" /\ s_ord.x.t # s_ord.y.t) =>
        s_ord.ord = CmpInt(ImplementedRank(s_ord.x), ImplementedRank(s_ord.y))

\* A Bytes value was compared with an Op value and found greater.
C10_Witness ==
    /\ s_pc = "compared"
    /\ s_ord.x.t = "Bytes" /\ s_ord.y.t = "Op"
    /\ s_ord.ord = 1

\* C38: cmp(a, b) = Equal exactly when a == b, the derived equality that
\* the duplicate removal, the substitutions and the contradiction check of
\* eval_conditions use.
C38_OrderConsistentWithEquality ==
    s_pc = "compared" => (s_ord.ord = 0 <=> s_ord.x = s_ord.y)

(***************************************************************************)
(* SpecEval: eval_conditions run one pass of its outer loop at a time on a *)
(* list of spending conditions.  ec_seen collects the lists from which the *)
(* passes so far started.  A pass that leaves more than MaxNodes           *)
(* expression nodes ends the exploration of that run ("cut").              *)
(***************************************************************************)
MaxConds == 2

MaxNodes == 12

RECURSIVE nodes(_)
RECURSIVE total_nodes(_)
total_nodes(es) == IF es = <<>> THEN 0 ELSE nodes(Head(es)) + total_nodes(Tail(es))

nodes(e) == 1 + (IF e.t = "Op" THEN total_nodes(e.args) ELSE 0)

Contexts ==
    {[version |-> v, rules |-> r] :
        v \in {"Legacy", "SegwitV0", "SegwitV1"}, r \in {"ConsensusOnly", "All"}}

EvalContexts ==
    {[version |-> "Legacy", rules |-> "ConsensusOnly"],
     [version |-> "SegwitV0", rules |-> "All"],
     [version |-> "SegwitV1", rules |-> "All"]}

E_S0 == StackE(0)

E_S1 == StackE(1)

E_Ripemd == OpE(OP_RIPEMD160, <<E_S0>>)

EvalUniverse ==
    {E_S0, E_S1, BytesE(<<>>), BytesE(<<1>>), E_Ripemd,
     OpE(OP_EQUAL, <<E_S0, E_S0>>),
     OpE(OP_EQUAL, <<E_S1, E_S0>>),
     OpE(OP_EQUAL, <<E_S0, BytesE(<<1>>)>>),
     OpE(OP_EQUAL, <<E_Ripemd, OpE(OP_SHA256, <<E_Ripemd>>)>>),
     OpE(OP_EQUAL, <<OpE(OP_ADD, <<BytesE(<<1>>), BytesE(<<1>>)>>), BytesE(<<2>>)>>),
     OpE(OP_NOT, <<E_S0>>),
     OpE(OP_NOT, <<OpE(OP_NOT, <<E_S0>>)>>),
     OpE(OP_INTERNAL_NOT, <<OpE(OP_EQUAL, <<E_S1, E_S0>>)>>),
     OpE(OP_BOOLAND, <<E_S0, E_S1>>),
     OpE(OP_BOOLAND, <<OpE(OP_EQUAL, <<E_S1, E_S0>>), OpE(OP_NOT, <<E_S0>>)>>),
     OpE(OP_CHECKSIG, <<E_S1, E_S0>>),
     OpE(OP_NOT, <<OpE(OP_CHECKSIG, <<E_S1, E_S0>>)>>),
     OpE(OP_SIZE, <<OpE(OP_CHECKSIG, <<E_S1, E_S0>>)>>),
     OpE(OP_ADD, <<E_S0, BytesE(<<1, 2, 3, 4, 5>>)>>),
     OpE(OP_CHECKLOCKTIMEVERIFY, <<BytesE(<<1>>)>>),
     MultisigE(<<E_S1, E_S0>>, 1),
     MultisigE(<<E_S1, E_S0, E_Ripemd>>, 1),
     MultisigE(<<E_S1, E_S0, BytesE(<<2>>), BytesE(<<3>>)>>, 2)}

InitEval ==
    /\ ec_conds \in SeqsUpTo(EvalUniverse, MaxConds)
    /\ ec_ctx \in EvalContexts
    /\ ec_pc = "run" /\ ec_err = "none" /\ ec_seen = {}
    /\ ec_init = ec_conds
    /\ IdleCS /\ IdleParse /\ IdleSort /\ IdleAn
    /\ IdleRest

\* A rule fired (continue 'i): the loop starts another pass.
EvalRestart ==
    /\ ec_pc = "run"
    /\ LET r == eval_conditions_pass(ec_conds, ec_ctx)
       IN  /\ r.kind = "restart"
           /\ ec_conds' = r.exprs
           /\ ec_pc' = IF total_nodes(r.exprs) > MaxNodes THEN "cut" ELSE "run"
    /\ ec_seen' = ec_seen \cup {ec_conds}
    /\ UNCHANGED <<ec_ctx, ec_err, ec_init, csVars, parseVars, sortVars, anVars, restVars>>

\* The scan reached the end of the list: break Ok(()).
EvalOk ==
    /\ ec_pc = "run"
    /\ LET r == eval_conditions_pass(ec_conds, ec_ctx)
       IN  /\ r.kind = "ok"
           /\ ec_conds' = r.exprs
    /\ ec_pc' = "ok"
    /\ UNCHANGED <<ec_ctx, ec_err, ec_seen, ec_init, csVars, parseVars, sortVars, anVars, restVars>>

\* return Err(..)
EvalErr ==
    /\ ec_pc = "run"
    /\ LET r == eval_conditions_pass(ec_conds, ec_ctx)
       IN  /\ r.kind = "err"
           /\ ec_conds' = r.exprs
           /\ ec_err' = r.err
    /\ ec_pc' = "err"
    /\ UNCHANGED <<ec_ctx, ec_seen, ec_init, csVars, parseVars, sortVars, anVars, restVars>>

NextEval == EvalRestart \/ EvalOk \/ EvalErr

SpecEval == InitEval /\ [][NextEval]_vars

\* C1: eval_conditions terminates on every list of conditions and every
\* context.  Each pass is a function of the list it starts from, so the loop
\* terminates only if no pass starts from a list from which an earlier pass
\* already started.
C1_EvalConditionsTerminates == ~(ec_pc = "run" /\ ec_conds \in ec_seen)

IsBytes(e) == e.t = "Bytes"

IsOpOf(e, o) == e.t = "Op" /\ e.op = o

\* C32: when eval_conditions returns Ok, no remaining condition is a Bytes
\* literal and none is a top-level OP_BOOLAND.
C32_OkIsNormalForm ==
    ec_pc = "ok" =>
        \A i \in 1..Len(ec_conds) : ~IsBytes(ec_conds[i]) /\ ~IsOpOf(ec_conds[i], OP_BOOLAND)

\* A list with a true literal and a top-level OP_BOOLAND went through the
\* loop and came out as a list of two conditions.
C32_Witness ==
    /\ ec_pc = "ok"
    /\ Len(ec_conds) = 2
    /\ \E l \in ec_seen :
          /\ \E i \in 1..Len(l) : IsBytes(l[i]) /\ decode_bool(l[i].b)
          /\ \E i \in 1..Len(l) : IsOpOf(l[i], OP_BOOLAND)

\* The list holds some expression together with its negation.
Contradictory(l) ==
    \E i, j \in 1..Len(l) :
        l[j].t = "Op" /\ IsNot(l[j].op) /\ l[j].args[1] = l[i]

\* C33: eval_conditions never returns Ok for a list of conditions that
\* holds both an expression and its OP_NOT or OP_INTERNAL_NOT, whatever
\* else the list holds and whichever rule fires first.
C33_ContradictionDiscarded == ec_pc = "ok" => ~Contradictory(ec_init)

\* A pass of the loop ended in continue 'i.
Restarted == ec_pc = "run" /\ ec_pc' \in {"run", "cut"}

NotGrown == total_nodes(ec_conds') <= total_nodes(ec_conds)

\* C34 as stated: every rewrite that restarts the loop of eval_conditions
\* leaves the total number of expression nodes of the list non-increasing.
C34_RestartsNeverGrow == [][Restarted => NotGrown]_vars

RECURSIVE HasGrowingMultisig(_)
\* Some node is a Multisig of n signatures and n keys, n >= 2: its 2n + 1
\* nodes expand to 4n - 1.
HasGrowingMultisig(e) ==
    /\ e.t = "Op"
    /\ \/ IsOpOf(e, OP_CHECKMULTISIG) /\ e.pk >= 2 /\ Len(e.args) = 2 * e.pk
       \/ \E i \in 1..Len(e.args) : HasGrowingMultisig(e.args[i])

\* A condition a == b whose b has more nodes than a, as the scan meets it.
HasGrowingEqual(l) ==
    \E i \in 1..Len(l) :
        LET e == sort_recursive(l)[i]
        IN  IsOpOf(e, OP_EQUAL) /\ nodes(e.args[2]) > nodes(e.args[1])

Growing(l) == HasGrowingEqual(l) \/ \E i \in 1..Len(l) : HasGrowingMultisig(l[i])

\* C34, amended: a pass that restarts the loop leaves the total number of
\* expression nodes non-increasing unless the list holds a condition
\* OP_EQUAL(a, b) with more nodes in b than in a (the substitution from
\* EQUAL writes b for a) or a Multisig of n >= 2 signatures and n keys.
C34_RestartsGrowOnlyByEqualOrMultisig ==
    [][Restarted /\ ~Growing(ec_conds) => NotGrown]_vars

\* A list that began with a top-level OP_BOOLAND has been through at least
\* one restart and now has fewer nodes.
C34_Witness ==
    /\ ec_seen # {}
    /\ \E i \in 1..Len(ec_init) : IsOpOf(ec_init[i], OP_BOOLAND)
    /\ ~Growing(ec_init)
    /\ total_nodes(ec_conds) < total_nodes(ec_init)

(***************************************************************************)
(* SpecAnalyze: analyze_script in sequential mode (worker_threads = 0).    *)
(* analyze runs a fork to completion before the forking path continues, so *)
(* the paths under analysis form a call stack, an_frames, whose last entry *)
(* is the running path.  Each frame is a ScriptAnalyzer and its position   *)
(* in analyze: "path" (in analyze_path), "eval" (in eval_conditions) or    *)
(* "cut" (eval_conditions outgrew MaxNodes; the run is not explored on).   *)
(***************************************************************************)
MaxScriptLen == 2

ErrDisabled == "Err(Script error: SCRIPT_ERR_DISABLED_OPCODE)"

ErrUnspendable == "Err(Script is unspendable)"

Hash20 == [i \in 1..20 |-> i]

PubKey(k) == <<2>> \o [i \in 1..32 |-> k]

P2PKH ==
    <<ScriptOp(OP_DUP), ScriptOp(OP_HASH160), ScriptBytes(Hash20),
      ScriptOp(OP_EQUALVERIFY), ScriptOp(OP_CHECKSIG)>>

IfElse ==
    <<ScriptOp(OP_IF), ScriptOp(OP_1), ScriptOp(OP_ELSE), ScriptOp(OP_0), ScriptOp(OP_ENDIF)>>

Multisig2of3 ==
    <<ScriptOp(OP_2), ScriptBytes(PubKey(1)), ScriptBytes(PubKey(2)), ScriptBytes(PubKey(3)),
      ScriptOp(OP_3), ScriptOp(OP_CHECKMULTISIG)>>

\* A disabled opcode in a branch that is never executed.
DeadCat ==
    <<ScriptOp(OP_0), ScriptOp(OP_IF), ScriptOp(OP_CAT), ScriptOp(OP_ENDIF), ScriptOp(OP_1)>>

\* One branch fails in locktime extraction (negative literal), the other survives.
NegativeLocktimeBranch ==
    <<ScriptOp(OP_IF), ScriptOp(OP_1NEGATE), ScriptOp(OP_CHECKLOCKTIMEVERIFY),
      ScriptOp(OP_ELSE), ScriptOp(OP_1), ScriptOp(OP_ENDIF)>>

\* One branch fails in condition simplification (x and not x), the other survives.
ContradictionBranch ==
    <<ScriptOp(OP_DUP), ScriptOp(OP_IF), ScriptOp(OP_NOT), ScriptOp(OP_ELSE),
      ScriptOp(OP_NOT), ScriptOp(OP_ENDIF)>>

DupSelfEqual == <<ScriptOp(OP_DUP), ScriptOp(OP_DUP), ScriptOp(OP_EQUALVERIFY)>>

\* OP_IF on the literal empty string: not the minimal true.
MinimalIfFalse == <<ScriptOp(OP_0), ScriptOp(OP_IF), ScriptOp(OP_ENDIF), ScriptOp(OP_1)>>

\* A 0-of-0 multisig whose dummy element is the literal 1.
NullDummyOne == <<ScriptOp(OP_1), ScriptOp(OP_0), ScriptOp(OP_0), ScriptOp(OP_CHECKMULTISIG)>>

NotIfElse ==
    <<ScriptOp(OP_NOTIF), ScriptOp(OP_1), ScriptOp(OP_ELSE), ScriptOp(OP_0), ScriptOp(OP_ENDIF)>>

\* Behind OP_ELSE the path that ran the first branch skips a push, stack
\* opcodes, a nested conditional and an OP_IFDUP.
SkippedNest ==
    <<ScriptOp(OP_IF), ScriptOp(OP_1), ScriptOp(OP_ELSE), ScriptOp(OP_DUP), ScriptOp(OP_NOTIF),
      ScriptBytes(<<7>>), ScriptOp(OP_ELSE), ScriptOp(OP_TOALTSTACK), ScriptOp(OP_ENDIF),
      ScriptOp(OP_IFDUP), ScriptOp(OP_ENDIF)>>

\* OP_VERIF in a branch that is not executed.
SkippedVerIf ==
    <<ScriptOp(OP_IF), ScriptOp(OP_1), ScriptOp(OP_ELSE), ScriptOp(OP_VERIF), ScriptOp(OP_ENDIF)>>

\* OP_CHECKMULTISIG(VERIFY) with counts of every kind: 21 and -1 keys, 2 and
\* -1 signatures for 1 and 0 keys, counts that are inputs, counts of five
\* bytes, 0 of 20 keys, and 1 of 1 with OP_CHECKMULTISIGVERIFY.
MultisigScripts ==
    {<<ScriptBytes(<<21>>), ScriptOp(OP_CHECKMULTISIG)>>,
     <<ScriptOp(OP_1NEGATE), ScriptOp(OP_CHECKMULTISIGVERIFY)>>,
     <<ScriptOp(OP_2), ScriptBytes(PubKey(1)), ScriptOp(OP_1), ScriptOp(OP_CHECKMULTISIG)>>,
     <<ScriptOp(OP_1NEGATE), ScriptOp(OP_0), ScriptOp(OP_CHECKMULTISIG)>>,
     <<ScriptOp(OP_CHECKMULTISIG)>>,
     <<ScriptOp(OP_1), ScriptOp(OP_CHECKMULTISIG)>>,
     <<ScriptBytes(<<0, 0, 0, 0, 1>>), ScriptOp(OP_CHECKMULTISIG)>>,
     <<ScriptBytes(<<0, 0, 0, 0, 1>>), ScriptOp(OP_0), ScriptOp(OP_CHECKMULTISIG)>>,
     <<ScriptOp(OP_0), ScriptOp(OP_0)>> \o [i \in 1..20 |-> ScriptBytes(PubKey(i))]
         \o <<ScriptBytes(<<20>>), ScriptOp(OP_CHECKMULTISIG)>>,
     <<ScriptOp(OP_1), ScriptBytes(PubKey(1)), ScriptOp(OP_1),
       ScriptOp(OP_CHECKMULTISIGVERIFY), ScriptOp(OP_1)>>}

ScenarioScripts ==
    {P2PKH, IfElse, Multisig2of3, DeadCat, NegativeLocktimeBranch, ContradictionBranch,
     DupSelfEqual, <<ScriptOp(OP_IFDUP)>>, MinimalIfFalse, NullDummyOne, NotIfElse,
     SkippedNest, SkippedVerIf} \cup MultisigScripts

ScriptAlphabet ==
    {ScriptOp(o) : o \in {OP_0, OP_1, OP_DUP, OP_IF, OP_NOTIF, OP_ELSE, OP_ENDIF, OP_VERIFY,
                          OP_EQUAL, OP_NOT, OP_CAT, OP_RETURN}}

Scripts == ScenarioScripts \cup SeqsUpTo(ScriptAlphabet, MaxScriptLen)

has_disabled_opcode(script) ==
    \E i \in 1..Len(script) : script[i].t = "Op" /\ is_disabled(script[i].op)

Frame(self, ph) == [a |-> self, ph |-> ph]

Top == an_frames[Len(an_frames)]

ReplaceTop(frames, f) == [frames EXCEPT ![Len(frames)] = f]

\* An error that unwinds every path on the call stack.
drop_all_paths(frames) == <<>>

\* `return` from analyze after an error: only the running path is given up.
drop_path(frames) == SubSeq(frames, 1, Len(frames) - 1)

Finished(outcome, stage, error, self) ==
    [outcome |-> outcome, stage |-> stage, err |-> error, a |-> self]

RECURSIVE report(_)
report(results) ==
    IF results = <<>> THEN <<>>
    ELSE LET lr == calculate_locktime_requirements(Head(results))
         IN  (IF lr.err = "none" THEN <<AnalyzerResult(Head(results), lr)>> ELSE <<>>)
             \o report(Tail(results))

InitAnalyze ==
    /\ an_script \in Scripts
    /\ an_ctx \in Contexts
    /\ an_pc = "precheck"
    /\ an_frames = <<>> /\ an_results = <<>> /\ an_reported = <<>>
    /\ an_ret = "none" /\ an_log = <<>> /\ an_created = 0
    /\ IdleCS /\ IdleParse /\ IdleSort /\ IdleEval
    /\ IdleRest

\* The precheck loop of analyze_script finds a disabled opcode.
PrecheckFail ==
    /\ an_pc = "precheck"
    /\ has_disabled_opcode(an_script)
    /\ an_ret' = ErrDisabled
    /\ an_pc' = "done"
    /\ UNCHANGED <<an_script, an_ctx, an_frames, an_results, an_reported, an_log, an_created,
                   csVars, parseVars, sortVars, evalVars, restVars>>

\* The precheck passes: ScriptAnalyzer::from_script and the call of analyze.
PrecheckPass ==
    /\ an_pc = "precheck"
    /\ ~has_disabled_opcode(an_script)
    /\ an_frames' = <<Frame(from_script, "path")>>
    /\ an_created' = 1
    /\ an_pc' = "analyze"
    /\ UNCHANGED <<an_script, an_ctx, an_results, an_reported, an_ret, an_log,
                   csVars, parseVars, sortVars, evalVars, restVars>>

Running(ph) == an_pc = "analyze" /\ an_frames # <<>> /\ Top.ph = ph

InScript == Top.a.script_offset < Len(an_script)

NextElem == an_script[Top.a.script_offset + 1]

\* One iteration of the analyze_path loop that neither forks nor fails.
PathStep ==
    /\ Running("path") /\ InScript
    /\ LET r == analyze_path_step(Top.a, NextElem, an_ctx)
       IN  /\ r.kind = "cont"
           /\ an_frames' = ReplaceTop(an_frames, Frame(r.self, "path"))
    /\ UNCHANGED <<an_script, an_ctx, an_pc, an_results, an_reported, an_ret, an_log,
                   an_created, csVars, parseVars, sortVars, evalVars, restVars>>

\* OP_IF / OP_NOTIF / OP_IFDUP: the fork is analyzed first, on top of this path.
\* The stack size check behind the opcode looks at this path only: when it
\* fails, the fork has been analyzed all the same and this path returns the
\* error afterwards (the log takes the error at once).
PathFork ==
    /\ Running("path") /\ InScript
    /\ LET r == analyze_path_step(Top.a, NextElem, an_ctx)
       IN  /\ r.kind = "fork"
           /\ IF r.err = "none"
              THEN /\ an_frames' = Append(ReplaceTop(an_frames, Frame(r.self, "path")),
                                          Frame(r.fork, "path"))
                   /\ an_log' = an_log
              ELSE /\ an_frames' = Append(drop_path(an_frames), Frame(r.fork, "path"))
                   /\ an_log' = Append(an_log, Finished("err", "path", r.err, r.self))
    /\ an_created' = an_created + 1
    /\ UNCHANGED <<an_script, an_ctx, an_pc, an_results, an_reported, an_ret,
                   csVars, parseVars, sortVars, evalVars, restVars>>

\* analyze_path returns an error inside the loop: analyze returns.
PathError ==
    /\ Running("path") /\ InScript
    /\ LET r == analyze_path_step(Top.a, NextElem, an_ctx)
       IN  /\ r.kind = "err"
           /\ an_log' = Append(an_log, Finished("err", "path", r.err, r.self))
    /\ an_frames' = drop_path(an_frames)
    /\ UNCHANGED <<an_script, an_ctx, an_pc, an_results, an_reported, an_ret, an_created,
                   csVars, parseVars, sortVars, evalVars, restVars>>

\* The end of the script: the final checks of analyze_path, then on to
\* eval_conditions or out of analyze.
PathEnd ==
    /\ Running("path") /\ ~InScript
    /\ LET r == analyze_path_end(Top.a, an_ctx)
       IN  IF r.err = "none"
           THEN /\ an_frames' = ReplaceTop(an_frames, Frame(r.self, "eval"))
                /\ an_log' = an_log
           ELSE /\ an_frames' = drop_path(an_frames)
                /\ an_log' = Append(an_log, Finished("err", "path", r.err, r.self))
    /\ UNCHANGED <<an_script, an_ctx, an_pc, an_results, an_reported, an_ret, an_created,
                   csVars, parseVars, sortVars, evalVars, restVars>>

\* A pass of eval_conditions in which a rule fired.
CondRestart ==
    /\ Running("eval")
    /\ LET r == eval_conditions_pass(Top.a.spending_conditions, an_ctx)
       IN  /\ r.kind = "restart"
           /\ an_frames' = ReplaceTop(an_frames,
                  Frame([Top.a EXCEPT !.spending_conditions = r.exprs],
                        IF total_nodes(r.exprs) > MaxNodes THEN "cut" ELSE "eval"))
    /\ UNCHANGED <<an_script, an_ctx, an_pc, an_results, an_reported, an_ret, an_log,
                   an_created, csVars, parseVars, sortVars, evalVars, restVars>>

\* eval_conditions returns Ok: results.push(self).
CondOk ==
    /\ Running("eval")
    /\ LET r == eval_conditions_pass(Top.a.spending_conditions, an_ctx)
           self == [Top.a EXCEPT !.spending_conditions = r.exprs]
       IN  /\ r.kind = "ok"
           /\ an_results' = Append(an_results, self)
           /\ an_log' = Append(an_log, Finished("ok", "eval", "none", self))
    /\ an_frames' = SubSeq(an_frames, 1, Len(an_frames) - 1)
    /\ UNCHANGED <<an_script, an_ctx, an_pc, an_reported, an_ret, an_created,
                   csVars, parseVars, sortVars, evalVars, restVars>>

\* eval_conditions returns an error: analyze returns.
CondError ==
    /\ Running("eval")
    /\ LET r == eval_conditions_pass(Top.a.spending_conditions, an_ctx)
       IN  /\ r.kind = "err"
           /\ an_log' = Append(an_log, Finished("err", "eval", r.err, Top.a))
    /\ an_frames' = drop_path(an_frames)
    /\ UNCHANGED <<an_script, an_ctx, an_pc, an_results, an_reported, an_ret, an_created,
                   csVars, parseVars, sortVars, evalVars, restVars>>

\* analyze has returned: locktime extraction on every result, and the return value.
Report ==
    /\ an_pc = "analyze" /\ an_frames = <<>>
    /\ an_reported' = report(an_results)
    /\ an_ret' = IF report(an_results) = <<>> THEN ErrUnspendable ELSE "Ok"
    /\ an_pc' = "done"
    /\ UNCHANGED <<an_script, an_ctx, an_frames, an_results, an_log, an_created,
                   csVars, parseVars, sortVars, evalVars, restVars>>

NextAnalyze ==
    \/ PrecheckFail \/ PrecheckPass
    \/ PathStep \/ PathFork \/ PathError \/ PathEnd
    \/ CondRestart \/ CondOk \/ CondError
    \/ Report

SpecAnalyze == InitAnalyze /\ [][NextAnalyze]_vars

(***************************************************************************)
(* Properties of analyze_script.                                           *)
(***************************************************************************)
SegwitV0All == [version |-> "SegwitV0", rules |-> "All"]

Returned(script, c) == an_pc = "done" /\ an_script = script /\ an_ctx = c

NoTimelock(result) == ~result.locktime_req.has_req /\ ~result.sequence_req.has_req
                      /\ result.locktime_req.exprs = <<>> /\ result.sequence_req.exprs = <<>>

Conditions(result) == {result.spending_conditions[i] : i \in 1..Len(result.spending_conditions)}

\* What a condition says, leaving aside the error it is tagged with.
Untagged(e) == [e EXCEPT !.err = "none"]

Hash160Of(e) == OpE(OP_RIPEMD160, <<OpE(OP_SHA256, <<e>>)>>)

ErrorsLogged == {i \in 1..Len(an_log) : an_log[i].outcome = "err"}

\* C4: OP_IF OP_1 OP_ELSE OP_0 OP_ENDIF under SegwitV0/All explores exactly
\* two paths; the path through the IF body is reported with the single
\* condition OP_EQUAL(stack item #0, true) and stack size 1; the path through
\* the ELSE body fails with EVAL_FALSE and is not reported.
C4_IfElseTwoPaths ==
    Returned(IfElse, SegwitV0All) =>
        /\ an_created = 2 /\ Len(an_log) = 2
        /\ an_ret = "Ok" /\ Len(an_reported) = 1
        /\ Len(an_reported[1].spending_conditions) = 1
        /\ Untagged(an_reported[1].spending_conditions[1])
              = OpE(OP_EQUAL, <<StackE(0), encode_bool_expr(TRUE)>>)
        /\ an_reported[1].stack_size = 1
        /\ \E i \in 1..2 :
              /\ ErrorsLogged = {i}
              /\ an_log[i].err = "SCRIPT_ERR_EVAL_FALSE"
              /\ OpE(OP_EQUAL, <<StackE(0), encode_bool_expr(FALSE)>>)
                    \in {Untagged(an_log[i].a.spending_conditions[j]) :
                            j \in 1..Len(an_log[i].a.spending_conditions)}

C4_Witness ==
    /\ Returned(IfElse, SegwitV0All)
    /\ an_created = 2
    /\ \E i \in 1..Len(an_log) : an_log[i].err = "SCRIPT_ERR_EVAL_FALSE"

RECURSIVE count_op(_, _)
RECURSIVE count_op_in(_, _)
\* The number of nodes of opcode o in the expressions es.
count_op_in(es, o) ==
    IF es = <<>> THEN 0 ELSE count_op(Head(es), o) + count_op_in(Tail(es), o)

count_op(e, o) ==
    IF e.t # "Op" THEN 0
    ELSE (IF e.op = o /\ e.pk = 0 THEN 1 ELSE 0) + count_op_in(e.args, o)

NullDummy(e) == OpE(OP_EQUAL, <<e, BytesE(<<>>)>>)

\* C5 as stated: the 2-of-3 multisig script under SegwitV0/All yields one
\* path whose conditions hold, after multisig expansion, a CHECKSIG for each
\* of the two signature/public-key pairings, and the NULLDUMMY condition.
C5_MultisigExpanded ==
    Returned(Multisig2of3, SegwitV0All) =>
        /\ an_ret = "Ok" /\ Len(an_reported) = 1
        /\ count_op_in(an_reported[1].spending_conditions, OP_CHECKSIG) >= 2
        /\ \E e \in Conditions(an_reported[1]) :
              \E x \in {StackE(0), StackE(1), StackE(2)} : Untagged(e) = NullDummy(x)

\* C5 amended: the 2-of-3 multisig script under SegwitV0/All yields one path
\* with exactly two conditions: the NULLDUMMY condition that stack item #2
\* equals the empty byte string, and one unexpanded CHECKMULTISIG over the
\* signatures (stack item #1, stack item #0) and the three public keys; no
\* CHECKSIG condition appears.
C5_MultisigKept ==
    Returned(Multisig2of3, SegwitV0All) =>
        /\ an_ret = "Ok" /\ Len(an_reported) = 1
        /\ an_reported[1].stack_size = 3
        /\ an_reported[1].spending_conditions =
              <<expr_with_error(OP_EQUAL, <<StackE(2), BytesE(<<>>)>>, "SCRIPT_ERR_SIG_NULLDUMMY"),
                MultisigE(<<StackE(1), StackE(0), BytesE(PubKey(1)), BytesE(PubKey(2)),
                            BytesE(PubKey(3))>>, 2)>>
        /\ count_op_in(an_reported[1].spending_conditions, OP_CHECKSIG) = 0

C5_Witness ==
    /\ Returned(Multisig2of3, SegwitV0All)
    /\ an_ret = "Ok"
    /\ \E e \in Conditions(an_reported[1]) : e.t = "Op" /\ e.op = OP_CHECKMULTISIG /\ e.pk = 2

\* The opcodes C6 lists as disabled.
ListedAsDisabled ==
    {OP_CAT, OP_SUBSTR, OP_LEFT, OP_RIGHT, OP_INVERT, OP_AND, OP_OR, OP_XOR,
     OP_2MUL, OP_2DIV, OP_MUL, OP_DIV, OP_MOD, OP_LSHIFT, OP_RSHIFT}

ContainsListed(script) ==
    \E i \in 1..Len(script) : script[i].t = "Op" /\ script[i].op \in ListedAsDisabled

\* C6: a script with a disabled opcode at any position, executed or not,
\* makes analyze_script return Err with DISABLED_OPCODE, and at no time is a
\* path created, a fork made or a path outcome produced.
C6_DisabledOpcodePrecheck ==
    ContainsListed(an_script) =>
        /\ an_created = 0 /\ an_frames = <<>> /\ an_log = <<>>
        /\ an_results = <<>> /\ an_reported = <<>>
        /\ an_pc \in {"precheck", "done"}
        /\ an_pc = "done" => an_ret = ErrDisabled

\* The disabled opcode sits in a branch that OP_0 OP_IF never executes.
C6_Witness == an_pc = "done" /\ an_script = DeadCat /\ an_ret = ErrDisabled

RECURSIVE SurvivorsOf(_)
\* The analyzers of the paths that came out of analyze with Ok, in order.
SurvivorsOf(log) ==
    IF log = <<>> THEN <<>>
    ELSE (IF Head(log).outcome = "ok" THEN <<Head(log).a>> ELSE <<>>) \o SurvivorsOf(Tail(log))

LocktimeOk(self) == calculate_locktime_requirements(self).err = "none"

\* The paths that survive path execution, condition simplification and
\* locktime extraction.
SurvivorCount ==
    Cardinality({i \in 1..Len(an_log) : an_log[i].outcome = "ok" /\ LocktimeOk(an_log[i].a)})

\* C7 as stated: analyze_script returns Ok exactly when at least one path
\* survives all three stages and Err("Script is unspendable") exactly when
\* none does.
C7_UnspendableIffNoSurvivor ==
    an_pc = "done" =>
        /\ an_ret = "Ok" <=> SurvivorCount > 0
        /\ an_ret = ErrUnspendable <=> SurvivorCount = 0

\* C7 amended: when analyze_script returns from a script without disabled
\* opcode, every path created has been analyzed to its own outcome, an error
\* having removed only the path it occurred on; the paths reported are the
\* survivors of all three stages; Ok is returned exactly when there is a
\* survivor and Err("Script is unspendable") exactly when there is none.  With
\* a disabled opcode no path survives and the error is DISABLED_OPCODE.
C7_ErrorIsolation ==
    an_pc = "done" =>
        IF ContainsListed(an_script)
        THEN SurvivorCount = 0 /\ an_ret = ErrDisabled
        ELSE /\ Len(an_log) = an_created
             /\ an_results = SurvivorsOf(an_log)
             /\ Len(an_reported) = SurvivorCount
             /\ an_ret = "Ok" <=> SurvivorCount > 0
             /\ an_ret = ErrUnspendable <=> SurvivorCount = 0

\* A path failed and another one was reported.
C7_Witness ==
    /\ an_pc = "done" /\ an_ret = "Ok"
    /\ an_created >= 2
    /\ ErrorsLogged # {}
    /\ Len(an_reported) >= 1

(***************************************************************************)
(* SpecCodec: the integer and boolean codecs of script::convert.  Either   *)
(* an integer is drawn, encoded and decoded again, or a byte string is     *)
(* drawn and decoded as an integer and as a boolean.                       *)
(***************************************************************************)
MaxSmallInt == 130

MaxCodecLen == 4

\* The ends of the range of 4-byte script numbers and the values around the
\* points where the encoding grows by a byte.
IntBoundaries ==
    {255, 256, 32767, 32768, 65535, 65536, 8388607, 8388608, 16777215, 16777216,
     2147483646, 2147483647}

IntSamples ==
    (-MaxSmallInt..MaxSmallInt) \cup IntBoundaries \cup {-n : n \in IntBoundaries}

CodecBytes == {0, 1, 127, 128, 129, 255}

InitCodec ==
    /\ \/ cd_kind = "int" /\ cd_n \in IntSamples /\ cd_b = <<>>
       \/ cd_kind = "bytes" /\ cd_n = 0 /\ cd_b \in SeqsUpTo(CodecBytes, MaxCodecLen)
    /\ cd_int = [err |-> "none", n |-> 0] /\ cd_bool = FALSE /\ cd_pc = "init"
    /\ IdleCore /\ IdlePool /\ IdleStack /\ IdleLock /\ IdleName /\ IdleOp /\ IdleFold /\ IdlePick

\* encode_int(n)
EncodeInt ==
    /\ cd_kind = "int" /\ cd_pc = "init"
    /\ cd_b' = encode_int(cd_n)
    /\ cd_pc' = "encoded"
    /\ UNCHANGED <<cd_kind, cd_n, cd_int, cd_bool, coreVars, poolVars, stackVars, lockVars, nameVars, opVars, foldVars, pickVars>>

\* decode_int(b, 4) and decode_bool(b) on the byte string at hand.
Decode ==
    /\ \/ cd_kind = "int" /\ cd_pc = "encoded"
       \/ cd_kind = "bytes" /\ cd_pc = "init"
    /\ cd_int' = decode_int(cd_b, 4)
    /\ cd_bool' = decode_bool(cd_b)
    /\ cd_pc' = "decoded"
    /\ UNCHANGED <<cd_kind, cd_n, cd_b, coreVars, poolVars, stackVars, lockVars, nameVars, opVars, foldVars, pickVars>>

NextCodec == EncodeInt \/ Decode

SpecCodec == InitCodec /\ [][NextCodec]_vars

\* C11: for every integer n of the range of 4-byte script numbers,
\* encode_int(n) has at most 4 bytes and decode_int(encode_int(n), 4) is n.
C11_IntRoundTrip ==
    /\ (cd_kind = "int" /\ cd_pc \in {"encoded", "decoded"}) => Len(cd_b) <= 4
    /\ (cd_kind = "int" /\ cd_pc = "decoded") => cd_int.err = "none" /\ cd_int.n = cd_n

\* The most negative number of the range went through the codec.
C11_Witness ==
    cd_kind = "int" /\ cd_pc = "decoded" /\ cd_n = -2147483647 /\ Len(cd_b) = 4
    /\ cd_int.n = cd_n

RECURSIVE AllZeroBut(_, _)
\* bs is zero bytes followed by one final byte from last.
AllZeroBut(bs, last) ==
    IF bs = <<>> THEN FALSE
    ELSE IF Len(bs) = 1 THEN bs[1] \in last
    ELSE bs[1] = 0 /\ AllZeroBut(Tail(bs), last)

\* Empty, all zero, or negative zero.
WrittenZero(bs) == bs = <<>> \/ AllZeroBut(bs, {0, 128})

\* C12: for every byte string of at most 4 bytes, decode_bool is true
\* exactly when decode_int(b, 4) is non-zero; for the empty string, all-zero
\* strings and negative zero decode_bool is false and decode_int is 0.
C12_BoolIffNonZero ==
    (cd_kind = "bytes" /\ cd_pc = "decoded" /\ Len(cd_b) <= 4) =>
        /\ cd_int.err = "none"
        /\ cd_bool <=> cd_int.n # 0
        /\ WrittenZero(cd_b) => ~cd_bool /\ cd_int.n = 0

\* Negative zero of full length was decoded.
C12_Witness ==
    cd_kind = "bytes" /\ cd_pc = "decoded" /\ cd_b = <<0, 0, 0, 128>> /\ ~cd_bool

(***************************************************************************)
(* SpecPool: analyze_script with the "threads" feature and at least one    *)
(* worker.  Thread 0 is the caller: inside thread::scope it builds the     *)
(* pool and runs the root path; the workers 1..pl_workers run the loop of  *)
(* ThreadPool::new.  A thread touches shared state only when it submits a  *)
(* fork, locks a mutex, receives from the channel or drops a Sender; every *)
(* step of a path is one action, as in SpecAnalyze.                        *)
(***************************************************************************)
MaxWorkers == 2

MaxPasses == 6

NestedIf ==
    <<ScriptOp(OP_IF), ScriptOp(OP_IF), ScriptOp(OP_1), ScriptOp(OP_ELSE), ScriptOp(OP_0),
      ScriptOp(OP_ENDIF), ScriptOp(OP_ELSE), ScriptOp(OP_1), ScriptOp(OP_ENDIF)>>

\* The simplifier never settles on the path through the IF body.
LoopingBranch ==
    <<ScriptOp(OP_IF), ScriptOp(OP_DUP), ScriptOp(OP_DUP), ScriptOp(OP_EQUALVERIFY),
      ScriptOp(OP_ELSE), ScriptOp(OP_1), ScriptOp(OP_ENDIF)>>

PoolScripts ==
    {IfElse, NestedIf, NegativeLocktimeBranch, ContradictionBranch, LoopingBranch,
     <<ScriptOp(OP_IFDUP)>>, <<ScriptOp(OP_IF), ScriptOp(OP_RETURN), ScriptOp(OP_ENDIF)>>,
     <<ScriptOp(OP_1)>>}

PoolContexts == {[version |-> "Legacy", rules |-> "ConsensusOnly"], SegwitV0All}

Threads == 0..pl_workers

Workers == 1..pl_workers

Thread(pc, self) == [pc |-> pc, a |-> self]

Job(id, self) == [id |-> id, a |-> self]

\* A push that loses what was collected before.
results_push_overwrite(results, self) == <<self>>

\* results.push(self)
results_push(results, self) == Append(results, self)

\* A Sender that is never dropped.
keep_sender(n) == n

\* A Sender is dropped: the pool at the end of the scope closure, or the
\* clone a job owns when the job has run.
drop_sender(n) == n - 1

\* Where a thread goes when analyze returns: the caller leaves the scope
\* closure and waits for the workers, a worker takes up its loop again.
after_analyze(t) == IF t = 0 THEN "join" ELSE "lock"

\* The state in which ThreadPool::new returns: the workers are spawned,
\* each with its clone of the Arc around the Receiver, and the Arc of new
\* itself is dropped.
PoolBuilt ==
    /\ pl_script \in PoolScripts
    /\ pl_ctx \in PoolContexts
    /\ pl_chan = <<>> /\ pl_senders = 1
    /\ pl_recv_lock = {} /\ pl_results_lock = {}
    /\ pl_thr = [t \in 0..pl_workers |->
                    IF t = 0 THEN Thread("path", from_script) ELSE Thread("lock", from_script)]
    /\ pl_results = <<>> /\ pl_out = <<>> /\ pl_runs = <<>>
    /\ IdleCore /\ IdleCodec /\ IdleStack /\ IdleLock /\ IdleName /\ IdleOp /\ IdleFold /\ IdlePick

InitPool == pl_workers \in 1..MaxWorkers /\ PoolBuilt

\* A Receiver that outlives its owners.
receiver_alive_always(thr) == TRUE

\* The Receiver lives in an Arc that only the worker closures hold once new
\* has returned: it is dropped with the last worker that ends.
receiver_alive(thr) == \E w \in DOMAIN thr \ {0} : thr[w].pc # "exit"

PoolFrame ==
    UNCHANGED <<pl_script, pl_ctx, pl_workers, coreVars, codecVars, stackVars, lockVars, nameVars, opVars, foldVars, pickVars>>

\* receiver.lock().unwrap()
WorkerLock(w) ==
    /\ pl_thr[w].pc = "lock"
    /\ pl_recv_lock = {}
    /\ pl_recv_lock' = {w}
    /\ pl_thr' = [pl_thr EXCEPT ![w].pc = "recv"]
    /\ PoolFrame
    /\ UNCHANGED <<pl_chan, pl_senders, pl_results_lock, pl_results, pl_out, pl_runs>>

\* guard.recv() returns a job; the guard is dropped and the job is called.
WorkerRecvJob(w) ==
    /\ pl_thr[w].pc = "recv"
    /\ pl_chan # <<>>
    /\ pl_chan' = Tail(pl_chan)
    /\ pl_recv_lock' = {}
    /\ pl_thr' = [pl_thr EXCEPT ![w] = Thread("path", Head(pl_chan).a)]
    /\ pl_runs' = [pl_runs EXCEPT ![Head(pl_chan).id] = @ + 1]
    /\ PoolFrame
    /\ UNCHANGED <<pl_senders, pl_results_lock, pl_results, pl_out>>

\* guard.recv() returns Err: the channel is empty and every Sender is gone.
WorkerRecvClosed(w) ==
    /\ pl_thr[w].pc = "recv"
    /\ pl_chan = <<>> /\ pl_senders = 0
    /\ pl_recv_lock' = {}
    /\ pl_thr' = [pl_thr EXCEPT ![w].pc = "exit"]
    /\ PoolFrame
    /\ UNCHANGED <<pl_chan, pl_senders, pl_results_lock, pl_results, pl_out, pl_runs>>

OnPath(t) == pl_thr[t].pc = "path" /\ pl_thr[t].a.script_offset < Len(pl_script)

PoolElem(t) == pl_script[pl_thr[t].a.script_offset + 1]

\* analyze returns on thread t without a result.
PathGivenUp(t) ==
    /\ pl_thr' = [pl_thr EXCEPT ![t].pc = after_analyze(t)]
    /\ pl_senders' = drop_sender(pl_senders)
    /\ UNCHANGED <<pl_chan, pl_recv_lock, pl_results_lock, pl_results, pl_out, pl_runs>>

PoolPathStep(t) ==
    /\ OnPath(t)
    /\ LET r == analyze_path_step(pl_thr[t].a, PoolElem(t), pl_ctx)
       IN  /\ r.kind = "cont"
           /\ pl_thr' = [pl_thr EXCEPT ![t].a = r.self]
    /\ PoolFrame
    /\ UNCHANGED <<pl_chan, pl_senders, pl_recv_lock, pl_results_lock, pl_results, pl_out,
                   pl_runs>>

\* pool.clone() and pool.submit_job(move || fork.analyze(..)).
PoolPathFork(t) ==
    /\ OnPath(t)
    /\ LET r == analyze_path_step(pl_thr[t].a, PoolElem(t), pl_ctx)
       IN  /\ r.kind = "fork"
           /\ receiver_alive(pl_thr)
           /\ pl_chan' = Append(pl_chan, Job(Len(pl_runs) + 1, r.fork))
           /\ IF r.err = "none"
              THEN /\ pl_thr' = [pl_thr EXCEPT ![t].a = r.self]
                   /\ pl_senders' = pl_senders + 1
              ELSE /\ pl_thr' = [pl_thr EXCEPT ![t].pc = after_analyze(t)]
                   /\ pl_senders' = drop_sender(pl_senders + 1)
    /\ pl_runs' = Append(pl_runs, 0)
    /\ PoolFrame
    /\ UNCHANGED <<pl_recv_lock, pl_results_lock, pl_results, pl_out>>

\* self.sender.send(Box::new(job)).unwrap() on a channel whose Receiver is
\* gone: send returns Err and unwrap panics; the fork is dropped with the
\* job and the pool of the thread with the unwinding.
PoolSubmitPanics(t) ==
    /\ OnPath(t)
    /\ analyze_path_step(pl_thr[t].a, PoolElem(t), pl_ctx).kind = "fork"
    /\ ~receiver_alive(pl_thr)
    /\ pl_thr' = [pl_thr EXCEPT ![t].pc = "panic"]
    /\ pl_senders' = drop_sender(pl_senders)
    /\ PoolFrame
    /\ UNCHANGED <<pl_chan, pl_recv_lock, pl_results_lock, pl_results, pl_out, pl_runs>>

PoolPathError(t) ==
    /\ OnPath(t)
    /\ analyze_path_step(pl_thr[t].a, PoolElem(t), pl_ctx).kind = "err"
    /\ PathGivenUp(t)
    /\ PoolFrame

PoolPathEnd(t) ==
    /\ pl_thr[t].pc = "path" /\ ~OnPath(t)
    /\ LET r == analyze_path_end(pl_thr[t].a, pl_ctx)
       IN  IF r.err = "none"
           THEN /\ pl_thr' = [pl_thr EXCEPT ![t] = Thread("eval", r.self)]
                /\ UNCHANGED <<pl_chan, pl_senders, pl_recv_lock, pl_results_lock, pl_results,
                               pl_out, pl_runs>>
           ELSE PathGivenUp(t)
    /\ PoolFrame

PoolCondRestart(t) ==
    /\ pl_thr[t].pc = "eval"
    /\ LET r == eval_conditions_pass(pl_thr[t].a.spending_conditions, pl_ctx)
       IN  /\ r.kind = "restart"
           /\ pl_thr' = [pl_thr EXCEPT ![t].a.spending_conditions = r.exprs]
    /\ PoolFrame
    /\ UNCHANGED <<pl_chan, pl_senders, pl_recv_lock, pl_results_lock, pl_results, pl_out,
                   pl_runs>>

PoolCondError(t) ==
    /\ pl_thr[t].pc = "eval"
    /\ eval_conditions_pass(pl_thr[t].a.spending_conditions, pl_ctx).kind = "err"
    /\ PathGivenUp(t)
    /\ PoolFrame

\* eval_conditions returns Ok; next is results.lock().
PoolCondOk(t) ==
    /\ pl_thr[t].pc = "eval"
    /\ LET r == eval_conditions_pass(pl_thr[t].a.spending_conditions, pl_ctx)
       IN  /\ r.kind = "ok"
           /\ pl_thr' = [pl_thr EXCEPT ![t] =
                            Thread("results", [pl_thr[t].a EXCEPT !.spending_conditions = r.exprs])]
    /\ PoolFrame
    /\ UNCHANGED <<pl_chan, pl_senders, pl_recv_lock, pl_results_lock, pl_results, pl_out,
                   pl_runs>>

\* results.lock().unwrap()
ResultsLock(t) ==
    /\ pl_thr[t].pc = "results"
    /\ pl_results_lock = {}
    /\ pl_results_lock' = {t}
    /\ pl_thr' = [pl_thr EXCEPT ![t].pc = "push"]
    /\ PoolFrame
    /\ UNCHANGED <<pl_chan, pl_senders, pl_recv_lock, pl_results, pl_out, pl_runs>>

\* results.push(self); the guard is dropped as analyze returns.
ResultsPush(t) ==
    /\ pl_thr[t].pc = "push"
    /\ pl_results' = results_push(pl_results, pl_thr[t].a)
    /\ pl_results_lock' = {}
    /\ pl_thr' = [pl_thr EXCEPT ![t].pc = after_analyze(t)]
    /\ pl_senders' = drop_sender(pl_senders)
    /\ PoolFrame
    /\ UNCHANGED <<pl_chan, pl_recv_lock, pl_out, pl_runs>>

\* thread::scope returns when every worker has ended; results.into_inner().
ScopeJoin ==
    /\ pl_thr[0].pc = "join"
    /\ \A w \in Workers : pl_thr[w].pc = "exit"
    /\ pl_out' = pl_results
    /\ pl_thr' = [pl_thr EXCEPT ![0].pc = "done"]
    /\ PoolFrame
    /\ UNCHANGED <<pl_chan, pl_senders, pl_recv_lock, pl_results_lock, pl_results, pl_runs>>

NextPool ==
    \/ \E w \in Workers : WorkerLock(w)
    \/ \E w \in Workers : WorkerRecvJob(w)
    \/ \E w \in Workers : WorkerRecvClosed(w)
    \/ \E t \in Threads : PoolPathStep(t)
    \/ \E t \in Threads : PoolPathFork(t)
    \/ \E t \in Threads : PoolPathError(t)
    \/ \E t \in Threads : PoolPathEnd(t)
    \/ \E t \in Threads : PoolCondRestart(t)
    \/ \E t \in Threads : PoolCondError(t)
    \/ \E t \in Threads : PoolCondOk(t)
    \/ \E t \in Threads : ResultsLock(t)
    \/ \E t \in Threads : ResultsPush(t)
    \/ ScopeJoin

SpecPool == InitPool /\ [][NextPool]_vars

(***************************************************************************)
(* SpecPoolFromZero: the same with worker_threads = 0 among the values     *)
(* analyze_script is called with; 0 is what the command line and the web   *)
(* front end pass.                                                         *)
(***************************************************************************)
InitPoolFromZero == pl_workers \in {0, 1} /\ PoolBuilt

NextPoolFromZero == NextPool \/ \E t \in Threads : PoolSubmitPanics(t)

SpecPoolFromZero == InitPoolFromZero /\ [][NextPoolFromZero]_vars

AtFork(t) ==
    /\ OnPath(t)
    /\ analyze_path_step(pl_thr[t].a, PoolElem(t), pl_ctx).kind = "fork"

\* With at least one worker the channel has a live Receiver whenever a
\* thread is about to submit a fork.
ReceiverAliveAtFork == \A t \in Threads : AtFork(t) => receiver_alive(pl_thr)

\* C37: no thread panics in submit_job, for every number of workers from 0:
\* the channel has a live Receiver whenever a fork is submitted.
C37_SubmitNeverFails == \A t \in Threads : pl_thr[t].pc # "panic"

\* The steps of the worker loop and of the scope's join.
PoolLoopStep ==
    \/ \E w \in Workers : WorkerLock(w) \/ WorkerRecvJob(w) \/ WorkerRecvClosed(w)
    \/ ScopeJoin

\* The scheduler runs every thread: a worker that can lock the receiver, or
\* whose recv can return, does so eventually, and so does the join.
SpecPoolFair == SpecPool /\ WF_vars(PoolLoopStep)

(***************************************************************************)
(* The sequential mode as a function: analyze runs a path to its end, and  *)
(* a fork is analysed in full (fork.analyze) before its parent continues.  *)
(***************************************************************************)
RECURSIVE simplified(_, _, _)
simplified_after(r, self, c, fuel) ==
    CASE r.kind = "ok" -> <<[self EXCEPT !.spending_conditions = r.exprs]>>
      [] r.kind = "err" -> <<>>
      [] OTHER -> IF fuel = 0
                  THEN <<[self EXCEPT !.script_offset = -1]>>
                  ELSE simplified([self EXCEPT !.spending_conditions = r.exprs], c, fuel - 1)

\* eval_conditions and the push of analyze; a path still unsettled after
\* MaxPasses passes is marked by the offset -1.
simplified(self, c, fuel) ==
    simplified_after(eval_conditions_pass(self.spending_conditions, c), self, c, fuel)

RECURSIVE sequential_analyze(_, _, _)
sequential_after(r, script, c) ==
    CASE r.kind = "cont" -> sequential_analyze(r.self, script, c)
      [] r.kind = "fork" -> sequential_analyze(r.fork, script, c)
                            \o (IF r.err = "none" THEN sequential_analyze(r.self, script, c)
                                ELSE <<>>)
      [] OTHER -> <<>>

sequential_end(r, c) == IF r.err = "none" THEN simplified(r.self, c, MaxPasses) ELSE <<>>

sequential_analyze(self, script, c) ==
    IF self.script_offset < Len(script)
    THEN sequential_after(analyze_path_step(self, script[self.script_offset + 1], c), script, c)
    ELSE sequential_end(analyze_path_end(self, c), c)

CountIn(seq, x) == Cardinality({i \in 1..Len(seq) : seq[i] = x})

SameBag(s1, s2) ==
    /\ Len(s1) = Len(s2)
    /\ \A i \in 1..Len(s1) : CountIn(s1, s1[i]) = CountIn(s2, s1[i])

\* C13: when analyze_script returns in concurrent mode, whatever the number
\* of workers (at least one) and however the threads interleaved, the paths
\* it read from the results collection are, as a multiset, exactly the paths
\* the sequential mode collects for the same script and context; only their
\* order may differ, and no push was lost.
C13_SameResultsAsSequential ==
    (pl_thr # <<>> /\ pl_thr[0].pc = "done")
        => SameBag(pl_out, sequential_analyze(from_script, pl_script, pl_ctx))

\* Two workers, both branches survive, and they were collected in another
\* order than the sequential one.
C13_Witness ==
    /\ pl_thr # <<>> /\ pl_thr[0].pc = "done" /\ pl_workers = 2
    /\ Len(pl_out) >= 2
    /\ pl_out # sequential_analyze(from_script, pl_script, pl_ctx)

\* Every submitted job has been received by exactly one worker.
EachJobRunOnce == \A j \in 1..Len(pl_runs) : pl_runs[j] = 1

\* No job is queued and no thread is inside analyze.
NoJobLeft ==
    /\ pl_chan = <<>>
    /\ \A t \in Threads : pl_thr[t].pc \in {"lock", "recv", "exit", "join", "done"}

AllWorkersEnded == \A w \in Workers : pl_thr[w].pc = "exit"

InAnalyze == {t \in Threads : pl_thr[t].pc \in {"path", "eval", "results", "push"}}

\* Every live Sender belongs to a queued job or to a thread inside analyze,
\* and each mutex is held exactly by the thread inside its critical section.
\* So a worker in recv on an empty channel waits for a running thread, and a
\* thread waiting for a mutex waits for one that can go on.
NothingBlocksForGood ==
    /\ pl_senders = Len(pl_chan) + Cardinality(InAnalyze)
    /\ pl_recv_lock = {w \in Workers : pl_thr[w].pc = "recv"}
    /\ pl_results_lock = {t \in Threads : pl_thr[t].pc = "push"}
    /\ Cardinality(pl_recv_lock) <= 1 /\ Cardinality(pl_results_lock) <= 1

\* C14: with at least one worker, no job is received twice; when
\* analyze_script reads the results every submitted job has been run exactly
\* once and has finished; no Sender outlives its job and no mutex is held by
\* a thread outside its critical section; and once the caller has left the scope closure and no job is queued or
\* running, every worker leaves its loop (none stays blocked in recv or on
\* the receiver mutex) and the results are read.
C14_JobsOnceThenWorkersEnd ==
    /\ [](\A j \in 1..Len(pl_runs) : pl_runs[j] <= 1)
    /\ [](pl_thr[0].pc = "done" => EachJobRunOnce /\ NoJobLeft /\ AllWorkersEnded /\ pl_senders = 0)
    /\ []NothingBlocksForGood
    /\ ((pl_thr[0].pc = "join" /\ NoJobLeft) ~> (AllWorkersEnded /\ pl_thr[0].pc = "done"))

\* Two workers, two submitted jobs, both run, every worker ended.
C14_Witness ==
    /\ pl_thr # <<>> /\ pl_thr[0].pc = "done" /\ pl_workers = 2
    /\ Len(pl_runs) >= 2 /\ EachJobRunOnce /\ AllWorkersEnded

\* The top path is inside the script and takes its next element.
TakesElement == an_pc = "analyze" /\ an_frames # <<>> /\ Top.ph = "path" /\ InScript

\* The step ends the path with an error, or it advances the path by one
\* element; a fork starts behind the element that created it.
AdvancesByOne ==
    \/ /\ Len(an_frames') = Len(an_frames) - 1
       /\ Len(an_log') = Len(an_log) + 1
    \/ /\ Len(an_frames') >= Len(an_frames)
       /\ \A i \in Len(an_frames)..Len(an_frames') :
             an_frames'[i].a.script_offset = Top.a.script_offset + 1

\* C15: in sequential mode every step of a path inside the script either
\* ends the path with an error or moves its script_offset forward by exactly
\* one, and no offset passes the end of the script, so a path leaves the
\* script after at most Len(script) steps; and when analyze_script returns,
\* every path that was created (the root and every fork) has been run to its
\* end: it is recorded as a result or discarded with its error, none is
\* pending.
C15_PathsAdvanceAndForksFinish ==
    /\ [][TakesElement => AdvancesByOne]_vars
    /\ [](\A i \in 1..Len(an_frames) : an_frames[i].a.script_offset <= Len(an_script))
    /\ []((an_pc = "done" /\ an_created > 0) => (an_frames = <<>> /\ Len(an_log) = an_created))

\* analyze_script has returned after two forks; all three paths are done.
C15_Witness ==
    /\ an_pc = "done" /\ an_created = 3 /\ Len(an_log) = 3 /\ an_frames = <<>>

(***************************************************************************)
(* SpecStack: a Stack, empty at first, under any sequence of its           *)
(* operations.  What is pushed is a literal or is built from what the last *)
(* operation handed out, as the opcodes of analyze_path do.                *)
(***************************************************************************)
MaxStackOps == 3

MaxIndex == 2

\* The inputs that growing sk_st to g has materialised: g has them at its
\* bottom, the deepest first; an input lies as deep below the top of the
\* initial stack as there are inputs materialised above it.
Materialised(g) ==
    [i \in 1..(Len(g.elements) - Len(sk_st.elements)) |->
        [pos |-> g.elements[i].pos,
         depth |-> Len(sk_made) + (Len(g.elements) - Len(sk_st.elements)) - i]]

Pushable ==
    {BytesE(<<1>>)} \cup {sk_hand[i] : i \in 1..Len(sk_hand)}
        \cup (IF Len(sk_hand) = 2 THEN {expr_of(OP_ADD, sk_hand)} ELSE {})
        \cup (IF Len(sk_hand) = 1 THEN {expr_of(OP_SHA256, sk_hand)} ELSE {})

InitStack ==
    /\ sk_st = Stack_new /\ sk_hand = <<>> /\ sk_n = 0 /\ sk_made = <<>>
    /\ IdleCore /\ IdleCodec /\ IdlePool /\ IdleLock /\ IdleName /\ IdleOp /\ IdleFold /\ IdlePick

\* An operation that first grows the stack to need elements, then leaves the
\* stack st and hands out hand.
StackOp(need, st, hand) ==
    /\ sk_n < MaxStackOps
    /\ sk_st' = st
    /\ sk_hand' = hand
    /\ sk_made' = sk_made \o Materialised(grow_to(sk_st, need))
    /\ sk_n' = sk_n + 1
    /\ UNCHANGED <<coreVars, codecVars, poolVars, lockVars, nameVars, opVars, foldVars, pickVars>>

StackPush == \E v \in Pushable : StackOp(0, push(sk_st, v), sk_hand)

StackPop == \E n \in 1..3 : StackOp(n, pop(sk_st, n).st, pop(sk_st, n).out)

StackPopToBox ==
    \E n \in 0..MaxIndex : StackOp(n, pop_to_box(sk_st, n).st, pop_to_box(sk_st, n).out)

StackGetBack ==
    \E i \in 0..MaxIndex : StackOp(i + 1, get_back(sk_st, i).st, <<get_back(sk_st, i).out>>)

StackRemoveBack ==
    \E i \in 0..MaxIndex :
        StackOp(i + 1, remove_back(sk_st, i).st, <<remove_back(sk_st, i).out>>)

StackSwapBack ==
    \E x, y \in 0..MaxIndex :
        StackOp((IF x > y THEN x ELSE y) + 1, swap_back(sk_st, x, y), sk_hand)

StackExtend ==
    \E amount \in 1..MaxIndex, offset \in 0..MaxIndex :
        StackOp(amount + offset, extend_from_within_back(sk_st, amount, offset), sk_hand)

NextStack ==
    \/ StackPush \/ StackPop \/ StackPopToBox \/ StackGetBack
    \/ StackRemoveBack \/ StackSwapBack \/ StackExtend

SpecStack == InitStack /\ [][NextStack]_vars

RECURSIVE positions(_)
\* The position ids of the Stack entries inside an expression.
positions(e) ==
    IF e.t = "Stack" THEN {e.pos}
    ELSE IF e.t = "Op" THEN UNION {positions(e.args[i]) : i \in 1..Len(e.args)}
    ELSE {}

PositionsHeld ==
    UNION ({positions(sk_st.elements[i]) : i \in 1..Len(sk_st.elements)}
           \cup {positions(sk_hand[i]) : i \in 1..Len(sk_hand)})

\* C16: after any sequence of stack operations from the empty stack,
\* items_used() is the number of Stack(pos) entries materialised so far, the
\* ids handed out are exactly 0 .. items_used()-1 with none created twice,
\* every Stack(pos) on the stack or handed out has pos < items_used(), and
\* no operation makes items_used() smaller.
C16_ItemsUsedCountsMaterialised ==
    /\ [](/\ items_used(sk_st) = Len(sk_made)
          /\ {sk_made[i].pos : i \in 1..Len(sk_made)} = 0..(items_used(sk_st) - 1)
          /\ \A i, j \in 1..Len(sk_made) : sk_made[i].pos = sk_made[j].pos => i = j
          /\ \A q \in PositionsHeld : q < items_used(sk_st))
    /\ [][items_used(sk_st') >= items_used(sk_st)]_vars

\* Three inputs were materialised and popped again, something was pushed.
C16_Witness ==
    /\ sk_n >= 3 /\ items_used(sk_st) = 3 /\ Len(sk_st.elements) = 1
    /\ PositionsHeld = {0, 1, 2}

DepthsRecorded == \A i \in 1..Len(sk_made) : sk_made[i].depth = i - 1

ToAltstackRun(n) == [i \in 1..n |-> ScriptOp(OP_TOALTSTACK)]

DeepTails ==
    {<<ScriptOp(OP_IFDUP), ScriptOp(OP_DROP)>>, <<ScriptOp(OP_DUP)>>, <<ScriptOp(OP_1)>>,
     <<ScriptOp(OP_CAT)>>, <<ScriptOp(OP_RETURN)>>, IfElse, ContradictionBranch}

DeepScripts ==
    {ToAltstackRun(n) \o tail :
        n \in {MAX_STACK_SIZE - 3, MAX_STACK_SIZE - 1, MAX_STACK_SIZE}, tail \in DeepTails}

InitDeep ==
    /\ an_script \in DeepScripts
    /\ an_ctx \in PoolContexts
    /\ an_pc = "precheck"
    /\ an_frames = <<>> /\ an_results = <<>> /\ an_reported = <<>>
    /\ an_ret = "none" /\ an_log = <<>> /\ an_created = 0
    /\ IdleCS /\ IdleParse /\ IdleSort /\ IdleEval
    /\ IdleRest

SpecDeep == InitDeep /\ [][NextAnalyze]_vars

CombinedSize(self) == Len(self.stack.elements) + Len(self.altstack)

\* C18: between two script elements, and after the last one, every path
\* that is still under analysis has at most 1000 entries on stack and
\* altstack together: a path that exceeds the limit after an executed
\* element has been aborted with STACK_SIZE.
C18_CombinedSizeBounded ==
    \A i \in 1..Len(an_frames) : CombinedSize(an_frames[i].a) <= MAX_STACK_SIZE

\* The errors a condition can be tagged with.
TagErrors == {"SCRIPT_ERR_MINIMALIF", "SCRIPT_ERR_TAPSCRIPT_MINIMALIF", "SCRIPT_ERR_SIG_NULLDUMMY"}

\* Paths discarded by eval_conditions.
DiscardedInEval == {i \in 1..Len(an_log) : an_log[i].outcome = "err" /\ an_log[i].stage = "eval"}

\* C19: a path whose only condition is an error-tagged one that simplifies
\* to false is discarded with the tagged error: MINIMALIF for OP_IF on the
\* literal empty string, SIG_NULLDUMMY for OP_CHECKMULTISIG with the literal
\* dummy 1 (SegwitV0 with all rules).
C19_TaggedErrorReturned ==
    /\ Returned(MinimalIfFalse, SegwitV0All) =>
          /\ DiscardedInEval # {}
          /\ \A i \in DiscardedInEval : an_log[i].err = "SCRIPT_ERR_MINIMALIF"
    /\ Returned(NullDummyOne, SegwitV0All) =>
          /\ DiscardedInEval # {}
          /\ \A i \in DiscardedInEval : an_log[i].err = "SCRIPT_ERR_SIG_NULLDUMMY"

(***************************************************************************)
(* SpecLock: calculate_locktime_requirements on lists of conditions with   *)
(* literal operands, and on every reordering of each list.  The literals   *)
(* stay below 2^31, but for one CLTV operand of five bytes, 2^32.          *)
(***************************************************************************)
MaxLockConds == 3

LockValues == {-1, 1, 65537, 4194305, 500000000}

TwoTo32 == <<0, 0, 0, 0, 1>>

LockConds ==
    {OpE(op, <<BytesE(encode_int(n))>>) :
        op \in {OP_CHECKLOCKTIMEVERIFY, OP_CHECKSEQUENCEVERIFY}, n \in LockValues}
    \cup {OpE(OP_CHECKLOCKTIMEVERIFY, <<BytesE(TwoTo32)>>)}

Reorderings(conds) ==
    {[i \in 1..Len(conds) |-> conds[p[i]]] :
        p \in {q \in [1..Len(conds) -> 1..Len(conds)] :
                  \A i, j \in 1..Len(conds) : q[i] = q[j] => i = j}}

InitLock ==
    /\ lk_conds \in SeqsUpTo(LockConds, MaxLockConds)
    /\ lk_other \in Reorderings(lk_conds)
    /\ lk_res = <<>> /\ lk_res_other = <<>> /\ lk_ret = <<>>
    /\ lk_pc = <<"ready", "ready", "ready">>
    /\ IdleCore /\ IdleCodec /\ IdlePool /\ IdleStack /\ IdleName /\ IdleOp /\ IdleFold /\ IdlePick

WithConditions(conds) == [from_script EXCEPT !.spending_conditions = conds]

Calculate ==
    /\ lk_pc[1] = "ready"
    /\ lk_res' = <<calculate_locktime_requirements(WithConditions(lk_conds))>>
    /\ lk_pc' = [lk_pc EXCEPT ![1] = "done"]
    /\ UNCHANGED <<lk_conds, lk_other, lk_res_other, lk_ret,
                   coreVars, codecVars, poolVars, stackVars, nameVars, opVars, foldVars, pickVars>>

CalculateReordered ==
    /\ lk_pc[2] = "ready"
    /\ lk_res_other' = <<calculate_locktime_requirements(WithConditions(lk_other))>>
    /\ lk_pc' = [lk_pc EXCEPT ![2] = "done"]
    /\ UNCHANGED <<lk_conds, lk_other, lk_res, lk_ret,
                   coreVars, codecVars, poolVars, stackVars, nameVars, opVars, foldVars, pickVars>>

\* The end of analyze_script for a script whose only surviving path has the
\* conditions lk_conds: the filter_map over the results and the return value.
ReportOnlyPath ==
    /\ lk_pc[1] = "done" /\ lk_pc[3] = "ready"
    /\ lk_ret' = [reported |-> report(<<WithConditions(lk_conds)>>),
                  ret |-> IF report(<<WithConditions(lk_conds)>>) = <<>>
                          THEN ErrUnspendable ELSE "Ok"]
    /\ lk_pc' = [lk_pc EXCEPT ![3] = "done"]
    /\ UNCHANGED <<lk_conds, lk_other, lk_res, lk_res_other,
                   coreVars, codecVars, poolVars, stackVars, nameVars, opVars, foldVars, pickVars>>

NextLock == Calculate \/ CalculateReordered \/ ReportOnlyPath

SpecLock == InitLock /\ [][NextLock]_vars

\* The literal operands of the conditions with opcode op that are not above
\* 2^32 - 1.
LiteralsOf(conds, op) ==
    {decode_int(conds[i].args[1].b, 5).n :
        i \in {j \in 1..Len(conds) : conds[j].op = op /\ ~above_u32_max(conds[j].args[1].b)}}

\* Some operand of op is above 2^32 - 1.
HasAboveU32(conds, op) ==
    \E j \in 1..Len(conds) : conds[j].op = op /\ above_u32_max(conds[j].args[1].b)

FlagAndLow16(v) == (v % 65536) + (IF (v \div 4194304) % 2 = 1 THEN 4194304 ELSE 0)

MaxOf(S) == CHOOSE m \in S : \A v \in S : v <= m

\* All literals are valid and of one type (block height or time).
OneKind(S, threshold) ==
    /\ \A v \in S : v >= 0
    /\ (\A v \in S : v < threshold) \/ (\A v \in S : v >= threshold)

BothCalculated == lk_pc[1] = "done" /\ lk_pc[2] = "done"

Outcome(res) ==
    IF res.err # "none" THEN <<"failure">>
    ELSE <<"ok", res.locktime_req.has_req, res.locktime_req.req,
           res.sequence_req.has_req, res.sequence_req.req>>

\* C20: the outcome of the locktime merge (failure, or the two requirements)
\* is the same for every order of the conditions; and when the CLTV literals
\* are all valid (from 0 to 2^32 - 1) and of one type and so are the masked
\* CSV literals, the
\* merge succeeds, the absolute requirement is the maximum of the CLTV
\* literals and the relative requirement is the maximum of the CSV literals
\* masked to the type flag and the low 16 bits.
C20_MaxOfLiteralsAnyOrder ==
    BothCalculated =>
        LET abs == LiteralsOf(lk_conds, OP_CHECKLOCKTIMEVERIFY)
            rel == LiteralsOf(lk_conds, OP_CHECKSEQUENCEVERIFY)
            masked == {FlagAndLow16(v) : v \in {w \in rel : w >= 0}}
            res == lk_res[1]
        IN  /\ Outcome(res) = Outcome(lk_res_other[1])
            /\ (/\ ~HasAboveU32(lk_conds, OP_CHECKLOCKTIMEVERIFY)
                /\ OneKind(abs, LOCKTIME_THRESHOLD)
                /\ \A v \in rel : v >= 0
                /\ OneKind(masked, SEQUENCE_LOCKTIME_TYPE_FLAG))
               => /\ res.err = "none"
                  /\ res.locktime_req.has_req = (abs # {})
                  /\ abs # {} => res.locktime_req.req = MaxOf(abs)
                  /\ res.sequence_req.has_req = (rel # {})
                  /\ rel # {} => res.sequence_req.req = MaxOf(masked)

\* Three CLTV literals of one type, the largest neither first nor last in
\* one order and last in the other; the requirement is the largest.
C20_Witness ==
    /\ BothCalculated /\ Len(lk_conds) = 3 /\ lk_other # lk_conds
    /\ LiteralsOf(lk_conds, OP_CHECKLOCKTIMEVERIFY) = {1, 65537, 4194305}
    /\ lk_conds[2].args[1].b = encode_int(4194305)
    /\ lk_res[1].err = "none" /\ lk_res[1].locktime_req.req = 4194305
    /\ lk_res_other[1].locktime_req.req = 4194305

\* Two operands of op lie on different sides of the threshold that tells
\* block heights from times (operands taken through mask for CSV).
MixedKinds(S, threshold) == \E v, w \in S : v < threshold /\ w >= threshold

\* The cases in which no transaction can satisfy the locktime conditions.
LocktimeUnsatisfiable(conds) ==
    \/ HasAboveU32(conds, OP_CHECKLOCKTIMEVERIFY)
    \/ \E v \in LiteralsOf(conds, OP_CHECKLOCKTIMEVERIFY) \cup LiteralsOf(conds, OP_CHECKSEQUENCEVERIFY) :
          v < 0
    \/ MixedKinds(LiteralsOf(conds, OP_CHECKLOCKTIMEVERIFY), LOCKTIME_THRESHOLD)
    \/ \E v, w \in LiteralsOf(conds, OP_CHECKSEQUENCEVERIFY) :
          (v \div 4194304) % 2 # (w \div 4194304) % 2

\* C21: when the conditions of a path hold two literal CLTV operands on
\* different sides of 500,000,000, or two literal CSV operands that differ
\* in bit 22, or a negative literal operand, or a CLTV literal above
\* 2^32 - 1, calculate_locktime_requirements returns an error, the path is
\* not among the reported ones, and analyze_script returns "Script is
\* unspendable" when it was the only path.
C21_UnsatisfiableLocktimeExcluded ==
    LocktimeUnsatisfiable(lk_conds) =>
        /\ lk_pc[1] = "done" => lk_res[1].err # "none"
        /\ lk_pc[3] = "done" => lk_ret.reported = <<>> /\ lk_ret.ret = ErrUnspendable

\* A CLTV operand of 2^32 next to a valid one: the only path is dropped.
C21_Witness ==
    /\ lk_pc[3] = "done" /\ Len(lk_conds) = 2
    /\ lk_conds[1].args[1].b = encode_int(1) /\ lk_conds[2].args[1].b = TwoTo32
    /\ lk_res[1].err = "SCRIPT_ERR_UNSATISFIED_LOCKTIME"
    /\ lk_ret.ret = ErrUnspendable

(***************************************************************************)
(* SpecName: Opcode::from_name.  Names are sequences of ASCII codes.  The  *)
(* table is the list of the opcodes! macro, in its order; row i holds the  *)
(* name stringify!($k) and the byte $v.                                    *)
(***************************************************************************)
OpcodeTable ==
    <<
      [k |-> <<79, 80, 95, 48>>, v |-> OP_0],
      [k |-> <<79, 80, 95, 70, 65, 76, 83, 69>>, v |-> OP_FALSE],
      [k |-> <<79, 80, 95, 80, 85, 83, 72, 68, 65, 84, 65, 49>>, v |-> OP_PUSHDATA1],
      [k |-> <<79, 80, 95, 80, 85, 83, 72, 68, 65, 84, 65, 50>>, v |-> OP_PUSHDATA2],
      [k |-> <<79, 80, 95, 80, 85, 83, 72, 68, 65, 84, 65, 52>>, v |-> OP_PUSHDATA4],
      [k |-> <<79, 80, 95, 49, 78, 69, 71, 65, 84, 69>>, v |-> OP_1NEGATE],
      [k |-> <<79, 80, 95, 82, 69, 83, 69, 82, 86, 69, 68>>, v |-> OP_RESERVED],
      [k |-> <<79, 80, 95, 49>>, v |-> OP_1],
      [k |-> <<79, 80, 95, 84, 82, 85, 69>>, v |-> OP_TRUE],
      [k |-> <<79, 80, 95, 50>>, v |-> OP_2],
      [k |-> <<79, 80, 95, 51>>, v |-> OP_3],
      [k |-> <<79, 80, 95, 52>>, v |-> OP_4],
      [k |-> <<79, 80, 95, 53>>, v |-> OP_5],
      [k |-> <<79, 80, 95, 54>>, v |-> OP_6],
      [k |-> <<79, 80, 95, 55>>, v |-> OP_7],
      [k |-> <<79, 80, 95, 56>>, v |-> OP_8],
      [k |-> <<79, 80, 95, 57>>, v |-> OP_9],
      [k |-> <<79, 80, 95, 49, 48>>, v |-> OP_10],
      [k |-> <<79, 80, 95, 49, 49>>, v |-> OP_11],
      [k |-> <<79, 80, 95, 49, 50>>, v |-> OP_12],
      [k |-> <<79, 80, 95, 49, 51>>, v |-> OP_13],
      [k |-> <<79, 80, 95, 49, 52>>, v |-> OP_14],
      [k |-> <<79, 80, 95, 49, 53>>, v |-> OP_15],
      [k |-> <<79, 80, 95, 49, 54>>, v |-> OP_16],
      [k |-> <<79, 80, 95, 78, 79, 80>>, v |-> OP_NOP],
      [k |-> <<79, 80, 95, 86, 69, 82>>, v |-> OP_VER],
      [k |-> <<79, 80, 95, 73, 70>>, v |-> OP_IF],
      [k |-> <<79, 80, 95, 78, 79, 84, 73, 70>>, v |-> OP_NOTIF],
      [k |-> <<79, 80, 95, 86, 69, 82, 73, 70>>, v |-> OP_VERIF],
      [k |-> <<79, 80, 95, 86, 69, 82, 78, 79, 84, 73, 70>>, v |-> OP_VERNOTIF],
      [k |-> <<79, 80, 95, 69, 76, 83, 69>>, v |-> OP_ELSE],
      [k |-> <<79, 80, 95, 69, 78, 68, 73, 70>>, v |-> OP_ENDIF],
      [k |-> <<79, 80, 95, 86, 69, 82, 73, 70, 89>>, v |-> OP_VERIFY],
      [k |-> <<79, 80, 95, 82, 69, 84, 85, 82, 78>>, v |-> OP_RETURN],
      [k |-> <<79, 80, 95, 84, 79, 65, 76, 84, 83, 84, 65, 67, 75>>, v |-> OP_TOALTSTACK],
      [k |-> <<79, 80, 95, 70, 82, 79, 77, 65, 76, 84, 83, 84, 65, 67, 75>>, v |-> OP_FROMALTSTACK],
      [k |-> <<79, 80, 95, 50, 68, 82, 79, 80>>, v |-> OP_2DROP],
      [k |-> <<79, 80, 95, 50, 68, 85, 80>>, v |-> OP_2DUP],
      [k |-> <<79, 80, 95, 51, 68, 85, 80>>, v |-> OP_3DUP],
      [k |-> <<79, 80, 95, 50, 79, 86, 69, 82>>, v |-> OP_2OVER],
      [k |-> <<79, 80, 95, 50, 82, 79, 84>>, v |-> OP_2ROT],
      [k |-> <<79, 80, 95, 50, 83, 87, 65, 80>>, v |-> OP_2SWAP],
      [k |-> <<79, 80, 95, 73, 70, 68, 85, 80>>, v |-> OP_IFDUP],
      [k |-> <<79, 80, 95, 68, 69, 80, 84, 72>>, v |-> OP_DEPTH],
      [k |-> <<79, 80, 95, 68, 82, 79, 80>>, v |-> OP_DROP],
      [k |-> <<79, 80, 95, 68, 85, 80>>, v |-> OP_DUP],
      [k |-> <<79, 80, 95, 78, 73, 80>>, v |-> OP_NIP],
      [k |-> <<79, 80, 95, 79, 86, 69, 82>>, v |-> OP_OVER],
      [k |-> <<79, 80, 95, 80, 73, 67, 75>>, v |-> OP_PICK],
      [k |-> <<79, 80, 95, 82, 79, 76, 76>>, v |-> OP_ROLL],
      [k |-> <<79, 80, 95, 82, 79, 84>>, v |-> OP_ROT],
      [k |-> <<79, 80, 95, 83, 87, 65, 80>>, v |-> OP_SWAP],
      [k |-> <<79, 80, 95, 84, 85, 67, 75>>, v |-> OP_TUCK],
      [k |-> <<79, 80, 95, 67, 65, 84>>, v |-> OP_CAT],
      [k |-> <<79, 80, 95, 83, 85, 66, 83, 84, 82>>, v |-> OP_SUBSTR],
      [k |-> <<79, 80, 95, 76, 69, 70, 84>>, v |-> OP_LEFT],
      [k |-> <<79, 80, 95, 82, 73, 71, 72, 84>>, v |-> OP_RIGHT],
      [k |-> <<79, 80, 95, 83, 73, 90, 69>>, v |-> OP_SIZE],
      [k |-> <<79, 80, 95, 73, 78, 86, 69, 82, 84>>, v |-> OP_INVERT],
      [k |-> <<79, 80, 95, 65, 78, 68>>, v |-> OP_AND],
      [k |-> <<79, 80, 95, 79, 82>>, v |-> OP_OR],
      [k |-> <<79, 80, 95, 88, 79, 82>>, v |-> OP_XOR],
      [k |-> <<79, 80, 95, 69, 81, 85, 65, 76>>, v |-> OP_EQUAL],
      [k |-> <<79, 80, 95, 69, 81, 85, 65, 76, 86, 69, 82, 73, 70, 89>>, v |-> OP_EQUALVERIFY],
      [k |-> <<79, 80, 95, 82, 69, 83, 69, 82, 86, 69, 68, 49>>, v |-> OP_RESERVED1],
      [k |-> <<79, 80, 95, 82, 69, 83, 69, 82, 86, 69, 68, 50>>, v |-> OP_RESERVED2],
      [k |-> <<79, 80, 95, 49, 65, 68, 68>>, v |-> OP_1ADD],
      [k |-> <<79, 80, 95, 49, 83, 85, 66>>, v |-> OP_1SUB],
      [k |-> <<79, 80, 95, 50, 77, 85, 76>>, v |-> OP_2MUL],
      [k |-> <<79, 80, 95, 50, 68, 73, 86>>, v |-> OP_2DIV],
      [k |-> <<79, 80, 95, 78, 69, 71, 65, 84, 69>>, v |-> OP_NEGATE],
      [k |-> <<79, 80, 95, 65, 66, 83>>, v |-> OP_ABS],
      [k |-> <<79, 80, 95, 78, 79, 84>>, v |-> OP_NOT],
      [k |-> <<79, 80, 95, 48, 78, 79, 84, 69, 81, 85, 65, 76>>, v |-> OP_0NOTEQUAL],
      [k |-> <<79, 80, 95, 65, 68, 68>>, v |-> OP_ADD],
      [k |-> <<79, 80, 95, 83, 85, 66>>, v |-> OP_SUB],
      [k |-> <<79, 80, 95, 77, 85, 76>>, v |-> OP_MUL],
      [k |-> <<79, 80, 95, 68, 73, 86>>, v |-> OP_DIV],
      [k |-> <<79, 80, 95, 77, 79, 68>>, v |-> OP_MOD],
      [k |-> <<79, 80, 95, 76, 83, 72, 73, 70, 84>>, v |-> OP_LSHIFT],
      [k |-> <<79, 80, 95, 82, 83, 72, 73, 70, 84>>, v |-> OP_RSHIFT],
      [k |-> <<79, 80, 95, 66, 79, 79, 76, 65, 78, 68>>, v |-> OP_BOOLAND],
      [k |-> <<79, 80, 95, 66, 79, 79, 76, 79, 82>>, v |-> OP_BOOLOR],
      [k |-> <<79, 80, 95, 78, 85, 77, 69, 81, 85, 65, 76>>, v |-> OP_NUMEQUAL],
      [k |-> <<79, 80, 95, 78, 85, 77, 69, 81, 85, 65, 76, 86, 69, 82, 73, 70, 89>>, v |-> OP_NUMEQUALVERIFY],
      [k |-> <<79, 80, 95, 78, 85, 77, 78, 79, 84, 69, 81, 85, 65, 76>>, v |-> OP_NUMNOTEQUAL],
      [k |-> <<79, 80, 95, 76, 69, 83, 83, 84, 72, 65, 78>>, v |-> OP_LESSTHAN],
      [k |-> <<79, 80, 95, 71, 82, 69, 65, 84, 69, 82, 84, 72, 65, 78>>, v |-> OP_GREATERTHAN],
      [k |-> <<79, 80, 95, 76, 69, 83, 83, 84, 72, 65, 78, 79, 82, 69, 81, 85, 65, 76>>, v |-> OP_LESSTHANOREQUAL],
      [k |-> <<79, 80, 95, 71, 82, 69, 65, 84, 69, 82, 84, 72, 65, 78, 79, 82, 69, 81, 85, 65, 76>>, v |-> OP_GREATERTHANOREQUAL],
      [k |-> <<79, 80, 95, 77, 73, 78>>, v |-> OP_MIN],
      [k |-> <<79, 80, 95, 77, 65, 88>>, v |-> OP_MAX],
      [k |-> <<79, 80, 95, 87, 73, 84, 72, 73, 78>>, v |-> OP_WITHIN],
      [k |-> <<79, 80, 95, 82, 73, 80, 69, 77, 68, 49, 54, 48>>, v |-> OP_RIPEMD160],
      [k |-> <<79, 80, 95, 83, 72, 65, 49>>, v |-> OP_SHA1],
      [k |-> <<79, 80, 95, 83, 72, 65, 50, 53, 54>>, v |-> OP_SHA256],
      [k |-> <<79, 80, 95, 72, 65, 83, 72, 49, 54, 48>>, v |-> OP_HASH160],
      [k |-> <<79, 80, 95, 72, 65, 83, 72, 50, 53, 54>>, v |-> OP_HASH256],
      [k |-> <<79, 80, 95, 67, 79, 68, 69, 83, 69, 80, 65, 82, 65, 84, 79, 82>>, v |-> OP_CODESEPARATOR],
      [k |-> <<79, 80, 95, 67, 72, 69, 67, 75, 83, 73, 71>>, v |-> OP_CHECKSIG],
      [k |-> <<79, 80, 95, 67, 72, 69, 67, 75, 83, 73, 71, 86, 69, 82, 73, 70, 89>>, v |-> OP_CHECKSIGVERIFY],
      [k |-> <<79, 80, 95, 67, 72, 69, 67, 75, 77, 85, 76, 84, 73, 83, 73, 71>>, v |-> OP_CHECKMULTISIG],
      [k |-> <<79, 80, 95, 67, 72, 69, 67, 75, 77, 85, 76, 84, 73, 83, 73, 71, 86, 69, 82, 73, 70, 89>>, v |-> OP_CHECKMULTISIGVERIFY],
      [k |-> <<79, 80, 95, 78, 79, 80, 49>>, v |-> OP_NOP1],
      [k |-> <<79, 80, 95, 67, 72, 69, 67, 75, 76, 79, 67, 75, 84, 73, 77, 69, 86, 69, 82, 73, 70, 89>>, v |-> OP_CHECKLOCKTIMEVERIFY],
      [k |-> <<79, 80, 95, 78, 79, 80, 50>>, v |-> OP_NOP2],
      [k |-> <<79, 80, 95, 67, 72, 69, 67, 75, 83, 69, 81, 85, 69, 78, 67, 69, 86, 69, 82, 73, 70, 89>>, v |-> OP_CHECKSEQUENCEVERIFY],
      [k |-> <<79, 80, 95, 78, 79, 80, 51>>, v |-> OP_NOP3],
      [k |-> <<79, 80, 95, 78, 79, 80, 52>>, v |-> OP_NOP4],
      [k |-> <<79, 80, 95, 78, 79, 80, 53>>, v |-> OP_NOP5],
      [k |-> <<79, 80, 95, 78, 79, 80, 54>>, v |-> OP_NOP6],
      [k |-> <<79, 80, 95, 78, 79, 80, 55>>, v |-> OP_NOP7],
      [k |-> <<79, 80, 95, 78, 79, 80, 56>>, v |-> OP_NOP8],
      [k |-> <<79, 80, 95, 78, 79, 80, 57>>, v |-> OP_NOP9],
      [k |-> <<79, 80, 95, 78, 79, 80, 49, 48>>, v |-> OP_NOP10],
      [k |-> <<79, 80, 95, 67, 72, 69, 67, 75, 83, 73, 71, 65, 68, 68>>, v |-> OP_CHECKSIGADD],
      [k |-> <<79, 80, 95, 73, 78, 86, 65, 76, 73, 68, 79, 80, 67, 79, 68, 69>>, v |-> OP_INVALIDOPCODE],
      [k |-> <<79, 80, 95, 67, 76, 84, 86>>, v |-> OP_CLTV],
      [k |-> <<79, 80, 95, 67, 83, 86>>, v |-> OP_CSV],
      [k |-> <<79, 80, 95, 73, 78, 84, 69, 82, 78, 65, 76, 95, 78, 79, 84>>, v |-> OP_INTERNAL_NOT]
    >>

\* The greatest stringify!($k).len() of the table
LONGEST_NAME_LENGTH ==
    CHOOSE n \in {Len(OpcodeTable[i].k) : i \in 1..Len(OpcodeTable)} :
        \A i \in 1..Len(OpcodeTable) : Len(OpcodeTable[i].k) <= n

\* b & ASCII_UPPERCASE_MASK, the byte with bit 5 cleared
upper_masked(b) == b - ((b \div 32) % 2) * 32

\* A make_ascii_uppercase that leaves the bytes as they are.
make_ascii_uppercase_not(bs) == bs

make_ascii_uppercase(bs) ==
    [i \in 1..Len(bs) |-> IF bs[i] >= 97 /\ bs[i] <= 122 THEN bs[i] - 32 ELSE bs[i]]

\* Option<Opcode>
None == [some |-> FALSE, op |-> 0]

Some(op) == [some |-> TRUE, op |-> op]

\* The rows whose name without its first three bytes is name_bytes
rows_named(name_bytes) ==
    {i \in 1..Len(OpcodeTable) :
        name_bytes = SubSeq(OpcodeTable[i].k, 4, Len(OpcodeTable[i].k))}

\* The if / else if chain stops at the first row that matches.
exact_at(i) == IF ~is_internal(OpcodeTable[i].v) THEN Some(OpcodeTable[i].v) ELSE None

from_name_exact_unprefixed(name_bytes) ==
    IF rows_named(name_bytes) = {} THEN None
    ELSE exact_at(CHOOSE i \in rows_named(name_bytes) :
                      \A j \in rows_named(name_bytes) : i <= j)

\* The name without its first three bytes when these are O or o, P or p, _.
strip_prefix(name) ==
    IF /\ Len(name) >= 3
       /\ upper_masked(name[1]) = 79 /\ upper_masked(name[2]) = 80 /\ name[3] = 95
    THEN SubSeq(name, 4, Len(name))
    ELSE name

from_name_stripped(name) ==
    IF Len(name) > LONGEST_NAME_LENGTH - 3 THEN None
    ELSE from_name_exact_unprefixed(make_ascii_uppercase(name))

from_name(name) == from_name_stripped(strip_prefix(name))

\* The ways of writing a table name: its letters in upper case, in lower
\* case, or alternating, behind no prefix or behind OP_, op_, Op_, oP_.
Lowered(bs) == [i \in 1..Len(bs) |-> IF bs[i] >= 65 /\ bs[i] <= 90 THEN bs[i] + 32 ELSE bs[i]]

Alternating(bs) ==
    [i \in 1..Len(bs) |-> IF i % 2 = 1 /\ bs[i] >= 65 /\ bs[i] <= 90 THEN bs[i] + 32 ELSE bs[i]]

Unprefixed(i) == SubSeq(OpcodeTable[i].k, 4, Len(OpcodeTable[i].k))

Prefixes == {<<>>, <<79, 80, 95>>, <<111, 112, 95>>, <<79, 112, 95>>, <<111, 80, 95>>}

Spellings(i) ==
    {pre \o body : pre \in Prefixes,
                   body \in {Unprefixed(i), Lowered(Unprefixed(i)), Alternating(Unprefixed(i))}}

\* Names of no opcode: the empty name, a bare prefix, 100 underscores, names
\* of 20 and of 23 letters, misspelt and doubly prefixed names, a prefix
\* with a dash, and a name with a byte that differs from a letter in bit 6.
NoNames ==
    {<<>>, <<79, 80, 95>>, [i \in 1..100 |-> 95],
     [i \in 1..20 |-> 65], <<79, 80, 95>> \o [i \in 1..20 |-> 65],
     <<68, 85>>, <<68, 85, 80, 80>>, <<79, 80, 95, 68, 85>>, <<70, 79, 79>>,
     <<79, 80, 95, 79, 80, 95, 68, 85, 80>>, <<79, 80, 45, 68, 85, 80>>,
     <<79, 80, 68, 85, 80>>, <<4, 21, 16>>, <<68, 85, 80, 32>>}

InitName ==
    /\ \/ /\ nm_row \in 1..Len(OpcodeTable)
          /\ nm_name \in Spellings(nm_row)
       \/ /\ nm_row = 0
          /\ nm_name \in NoNames
    /\ nm_out = <<>> /\ nm_pc = "call"
    /\ IdleCore /\ IdleCodec /\ IdlePool /\ IdleStack /\ IdleLock /\ IdleOp /\ IdleFold /\ IdlePick

FromName ==
    /\ nm_pc = "call"
    /\ nm_out' = <<from_name(nm_name)>>
    /\ nm_pc' = "returned"
    /\ UNCHANGED <<nm_name, nm_row, coreVars, codecVars, poolVars, stackVars, lockVars, opVars, foldVars, pickVars>>

NextName == FromName

SpecName == InitName /\ [][NextName]_vars

\* C22: from_name gives the byte of the table row for every spelling of the
\* row's name (any letter case, with or without a prefix OP_ in any letter
\* case), and None for OP_INTERNAL_NOT, for the empty name, for names longer
\* than the longest name of the table and for names of no opcode.
C22_FromNameResolves ==
    nm_pc = "returned" =>
        nm_out[1] = (IF nm_row > 0 /\ OpcodeTable[nm_row].v # OP_INTERNAL_NOT
                     THEN [some |-> TRUE, op |-> OpcodeTable[nm_row].v]
                     ELSE [some |-> FALSE, op |-> 0])

\* "oP_csv" is resolved to OP_CHECKSEQUENCEVERIFY.
C22_Witness ==
    /\ nm_pc = "returned"
    /\ nm_name = <<111, 80, 95, 99, 115, 118>>
    /\ nm_out[1] = [some |-> TRUE, op |-> OP_CHECKSEQUENCEVERIFY]

(***************************************************************************)
(* C23: what parse_from_bytes returns, told from the input alone.          *)
(***************************************************************************)
\* The bytes that name() gives a name: the table without the internal row.
PublicBytes == {OpcodeTable[i].v : i \in 1..Len(OpcodeTable)} \ {OP_INTERNAL_NOT}

\* The length field of n bytes for a push of l bytes, little endian.
RECURSIVE LengthField(_, _)
LengthField(l, n) == IF n = 0 THEN <<>> ELSE <<l % 256>> \o LengthField(l \div 256, n - 1)

\* The byte strings that stand for one element of a script.
Encodings(e) ==
    IF e.t = "Op"
    THEN IF e.op \in PublicBytes /\ e.op \notin {OP_PUSHDATA1, OP_PUSHDATA2, OP_PUSHDATA4}
         THEN {<<e.op>>} ELSE {}
    ELSE (IF Len(e.b) \in 1..75 THEN {<<Len(e.b)>> \o e.b} ELSE {})
         \cup {<<OP_PUSHDATA4>> \o LengthField(Len(e.b), 4) \o e.b}
         \cup (IF Len(e.b) < 256 THEN {<<OP_PUSHDATA1>> \o LengthField(Len(e.b), 1) \o e.b} ELSE {})
         \cup (IF Len(e.b) < 65536 THEN {<<OP_PUSHDATA2>> \o LengthField(Len(e.b), 2) \o e.b} ELSE {})

RECURSIVE Accounts(_, _)
\* bs is the elements of a, each in one of its encodings, one behind the other.
Accounts(bs, a) ==
    IF a = <<>> THEN bs = <<>>
    ELSE \E enc \in Encodings(Head(a)) :
            /\ Len(enc) <= Len(bs)
            /\ SubSeq(bs, 1, Len(enc)) = enc
            /\ Accounts(SubSeq(bs, Len(enc) + 1, Len(bs)), Tail(a))

\* The first k bytes of the input are the elements parsed so far.
Consumed(k) == k \in 0..Len(p_bytes) /\ Accounts(SubSeq(p_bytes, 1, k), p_a)

\* The value of the n bytes that end at 0-based offset off, little endian.
FieldValue(off, n) ==
    IF n = 0 THEN 0
    ELSE LET f == SubSeq(p_bytes, off - n + 1, off)
         IN  f[1] + (IF n >= 2 THEN 256 * f[2] ELSE 0)
                  + (IF n >= 4 THEN 65536 * f[3] + 16777216 * f[4] ELSE 0)

\* A push that declares x bytes starts behind k consumed bytes and its data
\* would start at offset p_offset.
PushDeclared(x) ==
    \/ /\ p_offset >= 1 /\ p_bytes[p_offset] = x /\ x \in 1..75
       /\ Consumed(p_offset - 1)
    \/ \E n \in {1, 2, 4} :
        /\ p_offset >= n + 1
        /\ pushdata_length(p_bytes[p_offset - n]) = n
        /\ FieldValue(p_offset, n) = x
        /\ Consumed(p_offset - n - 1)

\* C23: the parser never reads past the end of its input: its offset stays
\* within the input, UnexpectedEnd(expected, actual) is returned for a push
\* that declares expected bytes where actual < expected remain,
\* UnexpectedEndPushdataLength for an OP_PUSHDATA1/2/4 with fewer bytes
\* behind it than its length field takes, Invalid(byte) for a byte above
\* 0x4b without a public name (0xfe included), and on Ok the elements are
\* the input bytes, each once and in order.
C23_ParserStaysInBounds ==
    /\ p_offset <= Len(p_bytes)
    /\ p_res.kind = "run" => Consumed(p_offset)
    /\ p_res.kind = "ok" => p_offset = Len(p_bytes) /\ Consumed(Len(p_bytes))
    /\ p_res.kind = "UnexpectedEnd" =>
          /\ p_res.y = Len(p_bytes) - p_offset
          /\ p_res.y < p_res.x
          /\ PushDeclared(p_res.x)
    /\ p_res.kind = "UnexpectedEndPushdataLength" =>
          /\ p_res.x \in {OP_PUSHDATA1, OP_PUSHDATA2, OP_PUSHDATA4}
          /\ p_offset >= 1 /\ p_bytes[p_offset] = p_res.x
          /\ Len(p_bytes) - p_offset < pushdata_length(p_res.x)
          /\ Consumed(p_offset - 1)
    /\ p_res.kind = "Invalid" =>
          /\ p_res.x > 75 /\ p_res.x \notin PublicBytes
          /\ p_offset >= 1 /\ p_bytes[p_offset] = p_res.x
          /\ Consumed(p_offset - 1)
    /\ (p_bytes # <<>> /\ p_bytes[1] = OP_INTERNAL_NOT) => p_res.kind \in {"run", "Invalid"}

\* OP_1 is parsed, then an OP_PUSHDATA4 that declares 256 bytes where one is
\* left gives UnexpectedEnd(256, 1).
C23_Witness ==
    /\ p_bytes = <<OP_1, OP_PUSHDATA4, 0, 1, 0, 0, OP_1>>
    /\ p_res = ParseRes("UnexpectedEnd", 256, 1)
    /\ p_a = <<ScriptOp(OP_1)>>

(***************************************************************************)
(* SpecOpcodes: the stack opcodes of analyze_path, run one after the other *)
(* on an analyzer, each next to Bitcoin Script's own rule for the opcode   *)
(* applied to the analyzer's stack with the spender's inputs below it.     *)
(***************************************************************************)
InputDepth == 12

\* The stack that st stands for: below its elements lie the inputs that
\* were not yet asked for, <n> being the (n+1)-th from the top of the inputs.
Extended(st) ==
    [i \in 1..(InputDepth - st.next_element_id) |-> StackE(InputDepth - i)] \o st.elements

\* stacktop(-i) of Bitcoin Script's interpreter
stacktop(s, i) == s[Len(s) - i + 1]

WithoutTop(s, n) == SubSeq(s, 1, Len(s) - n)

\* The elements an opcode needs on the stack.
Needs(op) ==
    IF op \in {OP_DROP, OP_DUP} THEN 1
    ELSE IF op \in {OP_2DROP, OP_2DUP, OP_NIP, OP_OVER, OP_SWAP, OP_TUCK} THEN 2
    ELSE IF op \in {OP_3DUP, OP_ROT} THEN 3
    ELSE IF op \in {OP_2OVER, OP_2SWAP} THEN 4
    ELSE 6

\* The rule of Bitcoin Script for an opcode without operand, on stack s.
Reference(op, s) ==
    IF op = OP_DROP THEN WithoutTop(s, 1)
    ELSE IF op = OP_2DROP THEN WithoutTop(s, 2)
    ELSE IF op = OP_DUP THEN s \o <<stacktop(s, 1)>>
    ELSE IF op = OP_2DUP THEN s \o <<stacktop(s, 2), stacktop(s, 1)>>
    ELSE IF op = OP_3DUP THEN s \o <<stacktop(s, 3), stacktop(s, 2), stacktop(s, 1)>>
    ELSE IF op = OP_NIP THEN WithoutTop(s, 2) \o <<stacktop(s, 1)>>
    ELSE IF op = OP_OVER THEN s \o <<stacktop(s, 2)>>
    ELSE IF op = OP_2OVER THEN s \o <<stacktop(s, 4), stacktop(s, 3)>>
    ELSE IF op = OP_ROT
    THEN WithoutTop(s, 3) \o <<stacktop(s, 2), stacktop(s, 1), stacktop(s, 3)>>
    ELSE IF op = OP_SWAP THEN WithoutTop(s, 2) \o <<stacktop(s, 1), stacktop(s, 2)>>
    ELSE IF op = OP_2SWAP
    THEN WithoutTop(s, 4) \o <<stacktop(s, 2), stacktop(s, 1), stacktop(s, 4), stacktop(s, 3)>>
    ELSE IF op = OP_TUCK
    THEN WithoutTop(s, 2) \o <<stacktop(s, 1), stacktop(s, 2), stacktop(s, 1)>>
    ELSE \* OP_2ROT: (x1 x2 x3 x4 x5 x6 -- x3 x4 x5 x6 x1 x2)
         WithoutTop(s, 6) \o <<stacktop(s, 4), stacktop(s, 3), stacktop(s, 2), stacktop(s, 1),
                               stacktop(s, 6), stacktop(s, 5)>>

\* OP_PICK and OP_ROLL on a stack s from which the index n was taken.
ReferenceAt(op, s, n) ==
    IF op = OP_PICK THEN s \o <<stacktop(s, n + 1)>>
    ELSE Remove(s, Len(s) - n) \o <<stacktop(s, n + 1)>>

PlainStackOps ==
    {OP_DROP, OP_2DROP, OP_DUP, OP_2DUP, OP_3DUP, OP_NIP, OP_OVER, OP_2OVER, OP_ROT, OP_SWAP,
     OP_2SWAP, OP_TUCK}

InitOpcodes ==
    /\ so_self = from_script /\ so_ref = <<>> /\ so_last = 0 /\ so_n = 0
    /\ IdleCore /\ IdleCodec /\ IdlePool /\ IdleStack /\ IdleLock /\ IdleName /\ IdleFold /\ IdlePick

\* The analyzer after an opcode that neither forks nor fails.
RunOpcode(r, op, ref) ==
    /\ r.kind = "cont"
    /\ so_self' = r.self
    /\ so_ref' = ref
    /\ so_last' = op
    /\ so_n' = so_n + 1
    /\ UNCHANGED <<coreVars, codecVars, poolVars, stackVars, lockVars, nameVars, foldVars, pickVars>>

LegacyContext == [version |-> "Legacy", rules |-> "ConsensusOnly"]

\* A push of the number n: OP_0 .. OP_16.
OpPushNumber ==
    /\ so_n < MaxStackOps
    /\ \E n \in 0..MaxIndex :
          RunOpcode(exec_opcode(so_self, IF n = 0 THEN OP_0 ELSE OP_1 + n - 1, LegacyContext),
                    IF n = 0 THEN OP_0 ELSE OP_1 + n - 1,
                    Extended(so_self.stack) \o <<BytesE(encode_int(n))>>)

OpPlain ==
    /\ so_n < MaxStackOps
    /\ \E op \in PlainStackOps :
          /\ so_self.stack.next_element_id + Needs(op) <= InputDepth
          /\ RunOpcode(exec_opcode(so_self, op, LegacyContext), op,
                       Reference(op, Extended(so_self.stack)))

Op2Rot ==
    /\ so_n < MaxStackOps
    /\ so_self.stack.next_element_id + Needs(OP_2ROT) <= InputDepth
    /\ RunOpcode(exec_opcode(so_self, OP_2ROT, LegacyContext), OP_2ROT,
                 Reference(OP_2ROT, Extended(so_self.stack)))

\* OP_PICK / OP_ROLL with the number on top of the stack as index.
OpPickRoll ==
    /\ so_n < MaxStackOps
    /\ so_self.stack.elements # <<>>
    /\ so_self.stack.elements[Len(so_self.stack.elements)].t = "Bytes"
    /\ LET n == decode_int_unchecked(so_self.stack.elements[Len(so_self.stack.elements)].b)
       IN  /\ n >= 0
           /\ so_self.stack.next_element_id + n + 1 <= InputDepth
           /\ \E op \in {OP_PICK, OP_ROLL} :
                 RunOpcode(exec_opcode(so_self, op, LegacyContext), op,
                           ReferenceAt(op, WithoutTop(Extended(so_self.stack), 1), n))

NextOpcodes == OpPushNumber \/ OpPlain \/ Op2Rot \/ OpPickRoll

SpecOpcodes == InitOpcodes /\ [][NextOpcodes]_vars

\* The analyzer's stack, with the inputs not yet asked for below it, is the
\* stack Bitcoin Script's rule gave for the last opcode.
AsReference == Extended(so_self.stack) = so_ref

\* C24: OP_2ROT turns (x1 x2 x3 x4 x5 x6), x6 on top, into
\* (x3 x4 x5 x6 x1 x2), as Bitcoin Core does.
C24_TwoRotAsBitcoinCore == so_last = OP_2ROT => AsReference

\* C25: OP_DROP, OP_2DROP, OP_DUP, OP_2DUP, OP_3DUP, OP_NIP, OP_OVER,
\* OP_2OVER, OP_ROT, OP_SWAP, OP_2SWAP, OP_TUCK, and OP_PICK / OP_ROLL with
\* a literal index n >= 0, leave the stack that Bitcoin Script's rule gives
\* on the stack extended below with the spender's inputs.
C25_StackOpcodesAsReference ==
    so_last \in PlainStackOps \cup {OP_PICK, OP_ROLL} => AsReference

\* OP_2 OP_ROLL on the untouched stack: the third input comes to the top.
C25_Witness ==
    /\ so_last = OP_ROLL
    /\ so_n = 2
    /\ so_self.stack.elements = <<StackE(1), StackE(0), StackE(2)>>
    /\ so_ref[InputDepth] = StackE(2)

(***************************************************************************)
(* C26: the two analyzers behind an executed OP_IF / OP_NOTIF.             *)
(***************************************************************************)
\* The running path is about to execute an OP_IF or OP_NOTIF.
AtExecutedIf ==
    /\ Running("path") /\ InScript
    /\ NextElem.t = "Op" /\ NextElem.op \in {OP_IF, OP_NOTIF}
    /\ all_true(Top.a.cs)

\* The element the opcode takes: the top of the stack, or the next input.
ElementTaken(a) ==
    IF a.stack.elements = <<>> THEN StackE(a.stack.next_element_id)
    ELSE a.stack.elements[Len(a.stack.elements)]

MinimalIfApplies(c) ==
    c.version = "SegwitV1" \/ (c.version = "SegwitV0" /\ c.rules = "All")

LastCondition(a) == a.spending_conditions[Len(a.spending_conditions)]

SaysTrue(cond, e, c) ==
    IF MinimalIfApplies(c)
    THEN cond.t = "Op" /\ cond.op = OP_EQUAL /\ cond.args = <<e, BytesE(<<1>>)>>
    ELSE cond = e

SaysFalse(cond, e, c) ==
    IF MinimalIfApplies(c)
    THEN cond.t = "Op" /\ cond.op = OP_EQUAL /\ cond.args = <<e, BytesE(<<>>)>>
    ELSE cond.t = "Op" /\ cond.op = OP_INTERNAL_NOT /\ cond.args = <<e>>

\* body runs the branch behind the opcode, skip does not; each has one
\* condition more than before a, and the conditions say of e what the opcode asks.
BodyAndSkip(body, skip, a, op, c) ==
    /\ all_true(body.cs) /\ ~all_true(skip.cs)
    /\ Len(body.spending_conditions) = Len(a.spending_conditions) + 1
    /\ Len(skip.spending_conditions) = Len(a.spending_conditions) + 1
    /\ IF op = OP_IF
       THEN /\ SaysTrue(LastCondition(body), ElementTaken(a), c)
            /\ SaysFalse(LastCondition(skip), ElementTaken(a), c)
       ELSE /\ SaysFalse(LastCondition(body), ElementTaken(a), c)
            /\ SaysTrue(LastCondition(skip), ElementTaken(a), c)

TwoContinue ==
    /\ Len(an_frames') = Len(an_frames) + 1
    /\ an_created' = an_created + 1
    /\ an_frames'[Len(an_frames)].ph = "path" /\ an_frames'[Len(an_frames) + 1].ph = "path"
    /\ \/ BodyAndSkip(an_frames'[Len(an_frames)].a, an_frames'[Len(an_frames) + 1].a,
                      Top.a, NextElem.op, an_ctx)
       \/ BodyAndSkip(an_frames'[Len(an_frames) + 1].a, an_frames'[Len(an_frames)].a,
                      Top.a, NextElem.op, an_ctx)

\* C26: at an executed OP_IF / OP_NOTIF with condition element e exactly two
\* analyzers continue; the one that runs the body carries "e is true" for
\* OP_IF and "e is false" for OP_NOTIF, the other one the complement;
\* the condition is OP_EQUAL(e, true) / OP_EQUAL(e, false) where MinimalIf
\* applies (SegwitV1, or SegwitV0 with rules = All) and e / OP_INTERNAL_NOT(e)
\* otherwise.
C26_IfForksInTwo == [][AtExecutedIf => TwoContinue]_vars

\* OP_NOTIF under Legacy rules: the fork runs the body and carries not <0>,
\* the forking path skips it and carries <0>.
C26_Witness ==
    /\ an_script = NotIfElse /\ an_ctx = [version |-> "Legacy", rules |-> "ConsensusOnly"]
    /\ Len(an_frames) = 2
    /\ an_frames[1].a.script_offset = 1 /\ an_frames[2].a.script_offset = 1
    /\ ~all_true(an_frames[1].a.cs) /\ an_frames[1].a.spending_conditions = <<StackE(0)>>
    /\ all_true(an_frames[2].a.cs)
    /\ an_frames[2].a.spending_conditions = <<OpE(OP_INTERNAL_NOT, <<StackE(0)>>)>>

(***************************************************************************)
(* C27: elements in a branch that is not executed.                         *)
(***************************************************************************)
\* The running path is about to take an element while a condition is false.
AtSkippedElement == Running("path") /\ InScript /\ ~all_true(Top.a.cs)

IsOp(el, ops) == el.t = "Op" /\ el.op \in ops

\* The path as it is after the element: the same frame of the call stack.
Skipped(before, after, el) ==
    /\ after.stack = before.stack
    /\ after.altstack = before.altstack
    /\ after.spending_conditions = before.spending_conditions
    /\ after.script_offset = before.script_offset + 1
    /\ IF IsOp(el, {OP_IF, OP_NOTIF})
       THEN /\ after.cs.m_stack_size = before.cs.m_stack_size + 1
            /\ after.cs.m_first_false_pos = before.cs.m_first_false_pos
       ELSE IF IsOp(el, {OP_ELSE})
       THEN /\ after.cs.m_stack_size = before.cs.m_stack_size
            /\ (before.cs.m_first_false_pos < before.cs.m_stack_size - 1
                    => after.cs = before.cs)
            /\ (before.cs.m_first_false_pos = before.cs.m_stack_size - 1
                    => after.cs.m_first_false_pos = NO_FALSE)
       ELSE IF IsOp(el, {OP_ENDIF})
       THEN after.cs.m_stack_size = before.cs.m_stack_size - 1
       ELSE after.cs = before.cs

SkipsElement ==
    /\ an_created' = an_created
    /\ an_results' = an_results
    /\ \/ /\ Len(an_frames') = Len(an_frames)
          /\ an_frames'[Len(an_frames)].ph = "path"
          /\ Skipped(Top.a, an_frames'[Len(an_frames)].a, NextElem)
       \/ /\ IsOp(NextElem, {OP_VERIF, OP_VERNOTIF})
          /\ an_frames' = SubSeq(an_frames, 1, Len(an_frames) - 1)

Unbalanced == "SCRIPT_ERR_UNBALANCED_CONDITIONAL"

\* The running path is given up with the error and the log has it with the
\* condition stack as it was, empty or not.
GivenUpUnbalanced ==
    /\ an_frames' = SubSeq(an_frames, 1, Len(an_frames) - 1)
    /\ Len(an_log') = Len(an_log) + 1
    /\ an_log'[Len(an_log')].outcome = "err"
    /\ an_log'[Len(an_log')].err = Unbalanced
    /\ an_log'[Len(an_log')].a.cs = Top.a.cs
    /\ an_results' = an_results

\* OP_ELSE or OP_ENDIF is next and no conditional is open.
AtElseOrEndifOutside ==
    /\ Running("path") /\ InScript
    /\ IsOp(NextElem, {OP_ELSE, OP_ENDIF})
    /\ Top.a.cs.m_stack_size = 0

\* The script has ended and a conditional is still open.
AtEndInside == Running("path") /\ ~InScript /\ Top.a.cs.m_stack_size # 0

\* No condition stack has a negative size, and the paths that have left
\* analyze_path without error have none open.
ConditionalsClosed ==
    /\ \A i \in 1..Len(an_frames) :
          /\ an_frames[i].a.cs.m_stack_size >= 0
          /\ an_frames[i].ph # "path" => an_frames[i].a.cs.m_stack_size = 0
    /\ \A i \in 1..Len(an_results) : an_results[i].cs.m_stack_size = 0
    /\ \A i \in 1..Len(an_log) : an_log[i].a.cs.m_stack_size >= 0

\* C28: a path completes only with balanced conditionals: OP_ELSE or
\* OP_ENDIF on an empty condition stack, and a condition stack that is not
\* empty at the end of the script, end the path with
\* SCRIPT_ERR_UNBALANCED_CONDITIONAL, so that pop_back and toggle_top are
\* never called on an empty ConditionStack.
C28_ConditionalsBalanced ==
    [][/\ AtElseOrEndifOutside => GivenUpUnbalanced
       /\ AtEndInside => GivenUpUnbalanced
       /\ ConditionalsClosed']_vars

\* OP_1 OP_ENDIF: the OP_ENDIF ends the path, its condition stack empty.
C28_Witness ==
    /\ an_script = <<ScriptOp(OP_1), ScriptOp(OP_ENDIF)>>
    /\ Len(an_log) = 1
    /\ an_log[1].err = Unbalanced
    /\ an_log[1].a.cs = ConditionStack_new
    /\ an_log[1].a.script_offset = 2
    /\ an_results = <<>>

(***************************************************************************)
(* C29: a fork and the path it was cloned from.                            *)
(***************************************************************************)
\* The step starts a fork: a path more has been created.
Forks == an_created' = an_created + 1

\* The fork is the new last frame; it is in analyze_path at the element
\* behind the forking opcode, with the altstack of the forking path.
ForkResumesBehindOpcode ==
    /\ Len(an_frames') >= 1
    /\ an_frames'[Len(an_frames')].ph = "path"
    /\ an_frames'[Len(an_frames')].a.script_offset = Top.a.script_offset + 1
    /\ an_frames'[Len(an_frames')].a.altstack = Top.a.altstack

\* What the running path does is seen in no other path and in no result.
OthersUntouched ==
    /\ \A i \in 1..(Len(an_frames) - 1) :
          i <= Len(an_frames') /\ an_frames'[i] = an_frames[i]
    /\ \A i \in 1..Len(an_results) :
          i <= Len(an_results') /\ an_results'[i] = an_results[i]

\* C29: after a fork the two analyzers are independent of each other: a
\* step of one changes nothing in the other, nor in a path that has been
\* recorded; the fork resumes at the element that follows the forking opcode.
C29_ForksIndependent ==
    [][/\ an_pc = "analyze" => OthersUntouched
       /\ (an_pc = "analyze" /\ Forks) => ForkResumesBehindOpcode]_vars

\* NotIfElse: the fork has run the body and is recorded at offset 5, and the
\* forking path stands behind its own OP_0 at offset 4.
C29_Witness ==
    /\ an_script = NotIfElse
    /\ Len(an_results) = 1 /\ an_results[1].script_offset = 5
    /\ Len(an_frames) = 1 /\ an_frames[1].a.script_offset = 4
    /\ an_frames[1].a.stack.elements = <<BytesE(<<>>)>>
    /\ an_frames[1].a.spending_conditions # an_results[1].spending_conditions

(***************************************************************************)
(* C30: Multisig expressions and the counts of OP_CHECKMULTISIG(VERIFY).   *)
(***************************************************************************)
RECURSIVE MultisigsIn(_)
\* The Multisig expressions in e, e itself included.
MultisigsIn(e) ==
    (IF e.t = "Op" /\ e.op = OP_CHECKMULTISIG THEN {e} ELSE {})
    \cup UNION {MultisigsIn(e.args[i]) : i \in 1..Len(e.args)}

MultisigsOf(a) ==
    UNION ({MultisigsIn(a.stack.elements[i]) : i \in 1..Len(a.stack.elements)}
           \cup {MultisigsIn(a.altstack[i]) : i \in 1..Len(a.altstack)}
           \cup {MultisigsIn(a.spending_conditions[i]) : i \in 1..Len(a.spending_conditions)})

\* 0 <= |sigs| <= |keys| <= 20, the sigs being the first pk_offset expressions.
WellFormedMultisig(m) ==
    /\ 0 <= m.pk /\ m.pk <= Len(m.args) - m.pk /\ Len(m.args) - m.pk <= 20

MultisigsWellFormed ==
    /\ \A i \in 1..Len(an_frames) : \A m \in MultisigsOf(an_frames[i].a) : WellFormedMultisig(m)
    /\ \A i \in 1..Len(an_results) : \A m \in MultisigsOf(an_results[i]) : WellFormedMultisig(m)

\* The running path is about to execute OP_CHECKMULTISIG(VERIFY).
AtCheckMultisig ==
    /\ Running("path") /\ InScript
    /\ IsOp(NextElem, {OP_CHECKMULTISIG, OP_CHECKMULTISIGVERIFY})
    /\ all_true(Top.a.cs)

\* The element d below the top of the stack of a, an input where the stack
\* does not reach that deep.
ElementAt(a, d) ==
    IF d < Len(a.stack.elements) THEN a.stack.elements[Len(a.stack.elements) - d]
    ELSE StackE(a.stack.next_element_id + d - Len(a.stack.elements))

\* The number a literal of one to four bytes stands for, where it is small.
LowByte(bs) == IF bs = <<>> THEN 0 ELSE IF Len(bs) = 1 THEN bs[1] % 128 ELSE bs[1]

HighBytes(bs) ==
    \E i \in 2..Len(bs) : (IF i = Len(bs) THEN bs[i] % 128 ELSE bs[i]) # 0

\* The number that bs stands for is not in 0..hi, for hi < 128.
Outside(bs, hi) ==
    /\ bs # <<>>
    /\ \/ HighBytes(bs)
       \/ LowByte(bs) > hi
       \/ bs[Len(bs)] >= 128 /\ LowByte(bs) # 0

\* The path is given up with the error.
Aborts(error) ==
    /\ an_frames' = SubSeq(an_frames, 1, Len(an_frames) - 1)
    /\ Len(an_log') = Len(an_log) + 1
    /\ an_log'[Len(an_log')].outcome = "err"
    /\ an_log'[Len(an_log')].err = error

\* The path goes on with the Multisig expression of s signatures and k keys
\* taken from the stack of a: on the stack, or among the conditions behind
\* OP_CHECKMULTISIGVERIFY.
BuildsMultisig(a, a2, op, k, s) ==
    LET m == IF op = OP_CHECKMULTISIG THEN ElementAt(a2, 0) ELSE LastCondition(a2)
    IN  /\ m.t = "Op" /\ m.op = OP_CHECKMULTISIG
        /\ m.pk = s
        /\ m.args = [i \in 1..s |-> ElementAt(a, k + s + 2 - i)]
                    \o [i \in 1..k |-> ElementAt(a, k + 1 - i)]

\* What the signature count, the element below the k keys, leads to.
SigCountOutcome(a, op, k, long_is_overflow) ==
    LET sc == ElementAt(a, k + 1)
    IN  IF sc.t # "Bytes" THEN Aborts("SCRIPT_ERR_UNKNOWN_DEPTH")
        ELSE IF long_is_overflow /\ Len(sc.b) > 4 THEN Aborts("SCRIPT_ERR_NUM_OVERFLOW")
        ELSE IF Outside(sc.b, k) THEN Aborts("SCRIPT_ERR_SIG_COUNT")
        ELSE IF Len(sc.b) > 4 THEN TRUE
        ELSE /\ Len(an_frames') = Len(an_frames)
             /\ BuildsMultisig(a, an_frames'[Len(an_frames)].a, op, k, LowByte(sc.b))

\* What the counts on the stack of a lead to; long_is_overflow says whether a
\* count of more than four bytes is held to be no number.
CountsOutcome(a, op, c, long_is_overflow) ==
    LET kc == ElementAt(a, 0)
    IN  IF c.version = "SegwitV1" THEN Aborts("SCRIPT_ERR_TAPSCRIPT_CHECKMULTISIG")
        ELSE IF kc.t # "Bytes" THEN Aborts("SCRIPT_ERR_UNKNOWN_DEPTH")
        ELSE IF long_is_overflow /\ Len(kc.b) > 4 THEN Aborts("SCRIPT_ERR_NUM_OVERFLOW")
        ELSE IF Outside(kc.b, 20) THEN Aborts("SCRIPT_ERR_PUBKEY_COUNT")
        ELSE IF Len(kc.b) > 4 THEN TRUE
        ELSE SigCountOutcome(a, op, LowByte(kc.b), long_is_overflow)

\* C30 as stated: every Multisig expression has 0 <= |sigs| <= |keys| <= 20
\* with pk_offset = |sigs| and the sigs before the keys;
\* OP_CHECKMULTISIG(VERIFY) aborts the path with PUBKEY_COUNT for a literal
\* key count outside 0..20, with SIG_COUNT for a literal signature count
\* outside 0..kcount, with UNKNOWN_DEPTH for a count that is no literal, and
\* with TAPSCRIPT_CHECKMULTISIG under SegwitV1.
C30_CountsOutsideRangeAbort ==
    [][/\ MultisigsWellFormed'
       /\ AtCheckMultisig => CountsOutcome(Top.a, NextElem.op, an_ctx, FALSE)]_vars

\* C30, amended: as above for literal counts of at most four bytes; a literal
\* count of more than four bytes aborts the path with NUM_OVERFLOW, whatever
\* number it stands for.
C30_CountsOfFourBytes ==
    [][/\ MultisigsWellFormed'
       /\ AtCheckMultisig => CountsOutcome(Top.a, NextElem.op, an_ctx, TRUE)]_vars

\* 0 of 20: behind OP_CHECKMULTISIG the Multisig expression with no
\* signature and 20 keys is the one element of the stack.
C30_Witness ==
    /\ Len(an_frames) = 1 /\ Len(an_script) = 24
    /\ an_frames[1].a.script_offset = 24
    /\ Len(an_frames[1].a.stack.elements) = 1
    /\ ElementAt(an_frames[1].a, 0).op = OP_CHECKMULTISIG
    /\ ElementAt(an_frames[1].a, 0).pk = 0
    /\ Len(ElementAt(an_frames[1].a, 0).args) = 20

(***************************************************************************)
(* Expr::eval on a single expression.  eval_conditions calls eval on a     *)
(* condition again after every change, so the result of one call is the    *)
(* input of the next.                                                      *)
(***************************************************************************)
MaxSigs == 3

Sig(i) == StackE(i - 1)

Key(i) == BytesE(PubKey(i))

\* n signatures from the spender followed by k literal keys.
NofK(n, k) == MultisigE([i \in 1..(n + k) |-> IF i <= n THEN Sig(i) ELSE Key(i - n)], n)

FoldMultisigs ==
    {NofK(n, k) : n \in 0..MaxSigs, k \in 0..MaxSigs}
    \cup {MultisigE(<<Sig(1), OpE(OP_SIZE, <<BytesE(<<7, 7>>)>>)>>, 1),
          MultisigE(<<Sig(1), Sig(2), Sig(4), Sig(3)>>, 2),
          MultisigE(<<OpE(OP_NOT, <<BytesE(<<1, 2, 3, 4, 5>>)>>), Key(1)>>, 1),
          OpE(OP_NOT, <<NofK(2, 2)>>)}

\* Numbers of every length up to five bytes, the largest and the smallest
\* of four bytes among them, and operands that are not literals.
FoldNumbers ==
    {<<>>, <<1>>, <<129>>, <<128>>, <<127>>, <<255, 127>>, <<0, 0, 128>>,
     <<255, 255, 255, 127>>, <<255, 255, 255, 255>>, <<0, 0, 0, 128>>,
     <<1, 0, 0, 0, 0>>, <<1, 2, 3, 4, 5>>}

FoldOperands == {BytesE(b) : b \in FoldNumbers} \cup {StackE(0), OpE(OP_SIZE, <<StackE(1)>>)}

FoldSums == {OpE(o, <<a, b>>) : o \in {OP_ADD, OP_SUB}, a \in FoldOperands, b \in FoldOperands}

\* What a double negation is applied to: a stack slot, operations that
\* return a boolean, operations that do not, and literals.
FoldNegated ==
    {StackE(0), OpE(OP_CHECKSIG, <<StackE(1), StackE(0)>>),
     OpE(OP_EQUAL, <<StackE(1), StackE(0)>>), OpE(OP_NOT, <<StackE(0)>>),
     OpE(OP_RIPEMD160, <<StackE(0)>>), OpE(OP_ADD, <<StackE(0), StackE(1)>>),
     OpE(OP_SIZE, <<StackE(0)>>),
     BytesE(<<>>), BytesE(<<1>>), BytesE(<<5>>), BytesE(<<1, 2, 3, 4, 5>>)}

FoldNegations ==
    {OpE(n1, <<OpE(n2, <<x>>)>>) :
        n1 \in {OP_NOT, OP_INTERNAL_NOT}, n2 \in {OP_NOT, OP_INTERNAL_NOT}, x \in FoldNegated}

\* A double negation as the argument of another operation.
FoldNested ==
    {OpE(OP_RIPEMD160, <<e>>) : e \in FoldNegations}
    \cup {OpE(OP_EQUAL, <<e, StackE(1)>>) : e \in FoldNegations}

FoldUniverse ==
    {m \in FoldMultisigs : Len(sigs(m)) <= Len(keys(m))}
    \cup FoldSums \cup FoldNegations \cup FoldNested

InitFold ==
    /\ fo_expr \in FoldUniverse
    /\ fo_ctx \in Contexts
    /\ fo_res = EvalRes(fo_expr, FALSE, "none")
    /\ fo_pc = "ready"
    /\ IdleCore /\ IdleCodec /\ IdlePool /\ IdleStack /\ IdleLock /\ IdleName /\ IdleOp
    /\ IdlePick

\* changed = self.eval(ctx)?
FoldEval ==
    /\ fo_pc = "ready"
    /\ fo_res' = eval(fo_expr, fo_ctx)
    /\ fo_pc' = "done"
    /\ UNCHANGED <<fo_expr, fo_ctx, coreVars, codecVars, poolVars, stackVars, lockVars,
                   nameVars, opVars, pickVars>>

\* A changed expression is evaluated again.
FoldRepeat ==
    /\ fo_pc = "done"
    /\ fo_res.err = "none"
    /\ fo_res.changed
    /\ fo_expr' = fo_res.e
    /\ fo_res' = EvalRes(fo_res.e, FALSE, "none")
    /\ fo_pc' = "ready"
    /\ UNCHANGED <<fo_ctx, coreVars, codecVars, poolVars, stackVars, lockVars,
                   nameVars, opVars, pickVars>>

NextFold == FoldEval \/ FoldRepeat

SpecFold == InitFold /\ [][NextFold]_vars

Evaluated == fo_pc = "done"

IsMultisig(e) == e.t = "Op" /\ e.op = OP_CHECKMULTISIG

\* The arguments of the input after their own evaluation, which eval_ runs
\* first; an error in one of them is the error of the whole call.
ArgsEvaluated == [i \in 1..Len(fo_expr.args) |-> eval_(fo_expr.args[i], fo_ctx, 1)]

ArgsFail == \E i \in 1..Len(fo_expr.args) : ArgsEvaluated[i].err # "none"

SigOf(i) == ArgsEvaluated[i].e

KeyOf(i) == ArgsEvaluated[fo_expr.pk + i].e

RECURSIVE ChecksigsUpTo(_)
\* ((CHECKSIG(sig_1, key_1) BOOLAND CHECKSIG(sig_2, key_2)) BOOLAND ...)
ChecksigsUpTo(n) ==
    IF n = 1 THEN OpE(OP_CHECKSIG, <<SigOf(1), KeyOf(1)>>)
    ELSE OpE(OP_BOOLAND, <<ChecksigsUpTo(n - 1), OpE(OP_CHECKSIG, <<SigOf(n), KeyOf(n)>>)>>)

NSigs == fo_expr.pk

NKeys == Len(fo_expr.args) - fo_expr.pk

\* C31: eval of a Multisig with n signatures and n keys yields the
\* left-associative OP_BOOLAND of OP_CHECKSIG(sig_i, key_i), i = 1..n, the
\* i-th signature paired with the i-th key in the order of the arguments;
\* for n = 0 it yields true; with fewer signatures than keys the Multisig
\* stays a Multisig of the same arguments.
C31_MultisigExpands ==
    Evaluated /\ IsMultisig(fo_expr) /\ ~ArgsFail =>
        /\ fo_res.err = "none"
        /\ NSigs = NKeys /\ NSigs > 0 => fo_res.e = ChecksigsUpTo(NSigs) /\ fo_res.changed
        /\ NSigs = NKeys /\ NSigs = 0 => fo_res.e = BytesE(<<1>>) /\ fo_res.changed
        /\ NSigs < NKeys =>
              /\ fo_res.e = [fo_expr EXCEPT !.args = [i \in 1..Len(fo_expr.args) |->
                                                        ArgsEvaluated[i].e]]
              /\ fo_res.changed = \E i \in 1..Len(fo_expr.args) : ArgsEvaluated[i].changed

C31_Witness ==
    /\ Evaluated
    /\ fo_expr = NofK(3, 3)
    /\ fo_res.e = OpE(OP_BOOLAND,
                      <<OpE(OP_BOOLAND, <<OpE(OP_CHECKSIG, <<Sig(1), Key(1)>>),
                                          OpE(OP_CHECKSIG, <<Sig(2), Key(2)>>)>>),
                        OpE(OP_CHECKSIG, <<Sig(3), Key(3)>>)>>)

IsSum(e) == e.t = "Op" /\ e.op \in {OP_ADD, OP_SUB} /\ Len(e.args) = 2

Literal(e) == e.t = "Bytes"

TooLong(e) == Literal(e) /\ Len(e.b) > 4

ByteAt(bs, i) == IF i <= Len(bs) THEN bs[i] ELSE 0

\* The byte string read as a script number: the sign bit of the last byte
\* taken off, the bytes little-endian in limbs of two bytes, the fifth byte
\* apart; the limbs carry the sign.
Magnitude(bs) == [i \in 1..Len(bs) |-> IF i = Len(bs) THEN bs[i] % 128 ELSE bs[i]]

Negative(bs) == bs # <<>> /\ bs[Len(bs)] >= 128

Signed(bs, n) == IF Negative(bs) THEN -n ELSE n

LoLimb(bs) == Signed(bs, ByteAt(Magnitude(bs), 1) + 256 * ByteAt(Magnitude(bs), 2))

HiLimb(bs) == Signed(bs, ByteAt(Magnitude(bs), 3) + 256 * ByteAt(Magnitude(bs), 4))

TopByte(bs) == ByteAt(Magnitude(bs), 5)

\* No shorter byte string encodes the same number.
Minimal(bs) ==
    bs # <<>> => \/ bs[Len(bs)] % 128 # 0
                 \/ Len(bs) > 1 /\ bs[Len(bs) - 1] >= 128

\* r = a + b, or r = a - b with minus set, checked limb by limb: the high
\* limbs differ by the carry of the low ones.
IsSumOf(r, a, b, minus) ==
    LET s == IF minus THEN -1 ELSE 1
        carry == HiLimb(r) - HiLimb(a) - s * HiLimb(b)
    IN  /\ TopByte(r) = 0
        /\ carry \in {-1, 0, 1}
        /\ LoLimb(r) + carry * Limb = LoLimb(a) + s * LoLimb(b)

\* C35: OP_ADD / OP_SUB with a literal operand of more than 4 bytes fails
\* with NUM_OVERFLOW whatever the other operand is; with two literal
\* operands of at most 4 bytes it becomes the minimal encoding of a + b or
\* a - b, which takes at most the 5 bytes of the buffer.
C35_SumsFold ==
    Evaluated /\ IsSum(fo_expr) /\ (\A i \in 1..2 : fo_expr.args[i].t # "Op") =>
        LET a == fo_expr.args[1]
            b == fo_expr.args[2]
        IN  /\ TooLong(a) \/ TooLong(b) => fo_res.err = "SCRIPT_ERR_NUM_OVERFLOW"
            /\ Literal(a) /\ Literal(b) /\ ~TooLong(a) /\ ~TooLong(b) =>
                  /\ fo_res.err = "none" /\ fo_res.changed
                  /\ Literal(fo_res.e)
                  /\ Len(fo_res.e.b) <= INT_MAX_LEN
                  /\ Minimal(fo_res.e.b)
                  /\ IsSumOf(fo_res.e.b, a.b, b.b, fo_expr.op = OP_SUB)

\* (2^31 - 1) + (2^31 - 1) = 2^32 - 2 takes the five bytes fe ff ff ff 00.
C35_Witness ==
    /\ Evaluated
    /\ fo_expr = OpE(OP_ADD, <<BytesE(<<255, 255, 255, 127>>), BytesE(<<255, 255, 255, 127>>)>>)
    /\ fo_res.e = BytesE(<<254, 255, 255, 255, 0>>)

Negation(e) == e.t = "Op" /\ e.op \in {OP_NOT, OP_INTERNAL_NOT} /\ Len(e.args) = 1

DoubleNegation(e) == Negation(e) /\ Negation(e.args[1])

Negated(e) == e.args[1].args[1]

Boolean(x) == x.t = "Op" /\ returns_boolean(x.op)

\* eval has nothing to do on x, at any depth below the root.
Settled(x) == \A d \in 1..3 : eval_(x, fo_ctx, d) = EvalRes(x, FALSE, "none")

\* The input is an operation on a double negation that does not itself
\* change: a hash of it, or a comparison of it with a stack slot.
Nests(e) ==
    /\ e.t = "Op"
    /\ \/ e.op = OP_RIPEMD160 /\ Len(e.args) = 1
       \/ e.op = OP_EQUAL /\ Len(e.args) = 2 /\ e.args[2].t = "Stack"
    /\ DoubleNegation(e.args[1])

Folded(x) == fo_res = EvalRes(x, TRUE, "none")

Unchanged == fo_res = EvalRes(fo_expr, FALSE, "none")

LiteralNegatedTwice(e) ==
    IF e.args[1].op = OP_NOT /\ Len(Negated(e).b) > 4
    THEN fo_res.err = "SCRIPT_ERR_NUM_OVERFLOW"
    ELSE fo_res.err = "none" /\ fo_res.changed

C36_WitnessRoot ==
    /\ Evaluated
    /\ fo_expr = OpE(OP_NOT, <<OpE(OP_INTERNAL_NOT, <<StackE(0)>>)>>)
    /\ fo_res.e = StackE(0)

(***************************************************************************)
(* SpecPick: the symbolic stack of one path under number pushes, OP_DUP,   *)
(* OP_DROP and OP_PICK / OP_ROLL, the latter one call at a time:           *)
(* num_from_stack, then grow_to inside get_back / remove_back, then the    *)
(* rest of it and the push, then the size check that ends every iteration  *)
(* of the loop of analyze_path.                                            *)
(***************************************************************************)
MaxPickOps == 4

\* What an opcode may add to the stack by itself.
Slack == 21

\* The numbers the script pushes.
PickLiterals == {0, 1, MAX_STACK_SIZE - 1, MAX_STACK_SIZE + Slack}

InitPick ==
    /\ pr_st = Stack_new /\ pr_index = 0 /\ pr_op = 0 /\ pr_pc = "next" /\ pr_n = 0
    /\ IdleCore /\ IdleCodec /\ IdlePool /\ IdleStack /\ IdleLock /\ IdleName /\ IdleOp
    /\ IdleFold

PickFrame ==
    UNCHANGED <<coreVars, codecVars, poolVars, stackVars, lockVars, nameVars, opVars, foldVars>>

PickNext == pr_pc = "next" /\ pr_n < MaxPickOps

\* ScriptElem::Bytes(b): self.stack.push(Expr::bytes(b))
PickPushNumber(n) ==
    /\ PickNext
    /\ pr_st' = push(pr_st, encode_int_expr(n))
    /\ pr_pc' = "check" /\ pr_n' = pr_n + 1
    /\ UNCHANGED <<pr_index, pr_op>>
    /\ PickFrame

\* OP_DUP and OP_DROP
PickPlain(op) ==
    /\ PickNext
    /\ pr_st' = IF op = OP_DUP THEN extend_from_within_back(pr_st, 1, 0) ELSE pop(pr_st, 1).st
    /\ pr_pc' = "check" /\ pr_n' = pr_n + 1
    /\ UNCHANGED <<pr_index, pr_op>>
    /\ PickFrame

\* let index = self.num_from_stack()?; if index < 0 { return Err(..) }
PickIndex(op) ==
    /\ PickNext
    /\ LET p == pop(pr_st, 1)
           top == p.out[1]
       IN  /\ pr_st' = p.st
           /\ IF top.t = "Bytes" /\ check_int(top.b, 4) = "none"
                 /\ decode_int_unchecked(top.b) >= 0
              THEN pr_index' = decode_int_unchecked(top.b) /\ pr_pc' = "index"
              ELSE pr_index' = 0 /\ pr_pc' = "err"
    /\ pr_op' = op /\ pr_n' = pr_n + 1
    /\ PickFrame

\* self.grow_to(index + 1), the first statement of get_back and remove_back
PickGrow ==
    /\ pr_pc = "index"
    /\ pr_st' = grow_to(pr_st, pr_index + 1)
    /\ pr_pc' = "grown"
    /\ UNCHANGED <<pr_index, pr_op, pr_n>>
    /\ PickFrame

\* The element is cloned or removed, and pushed.
PickTake ==
    /\ pr_pc = "grown"
    /\ LET r == IF pr_op = OP_PICK THEN get_back_grown(pr_st, pr_index)
                ELSE remove_back_grown(pr_st, pr_index)
       IN  pr_st' = push(r.st, r.out)
    /\ pr_pc' = "check"
    /\ UNCHANGED <<pr_index, pr_op, pr_n>>
    /\ PickFrame

\* if self.stack.len() + self.altstack.len() > 1000 { return Err(STACK_SIZE) }
PickSizeCheck ==
    /\ pr_pc = "check"
    /\ pr_pc' = IF Len(pr_st.elements) > MAX_STACK_SIZE THEN "err" ELSE "next"
    /\ UNCHANGED <<pr_st, pr_index, pr_op, pr_n>>
    /\ PickFrame

NextPick ==
    \/ \E n \in PickLiterals : PickPushNumber(n)
    \/ \E op \in {OP_DUP, OP_DROP} : PickPlain(op)
    \/ \E op \in {OP_PICK, OP_ROLL} : PickIndex(op)
    \/ PickGrow
    \/ PickTake
    \/ PickSizeCheck

SpecPick == InitPick /\ [][NextPick]_vars

\* C39: at every point of the analysis, between the calls of one opcode
\* included, the stack holds at most 1000 entries and what one opcode adds
\* by itself, whatever numbers the script pushes.
C39_StackBoundedMidOpcode == Len(pr_st.elements) <= MAX_STACK_SIZE + Slack

(***************************************************************************)
(* SpecUnderflow: opcodes run on a path that starts from the empty stack,  *)
(* the failing ones included.  so_ref keeps the analyzer before the last   *)
(* opcode, how that opcode ended, and the expressions OP_TOALTSTACK moved  *)
(* and OP_FROMALTSTACK has not taken back.                                 *)
(***************************************************************************)
MaxUnderflowOps == 3

\* Opcodes that read a fixed number of entries of the main stack.
FixedNeedOps == PlainStackOps \cup {OP_2ROT, OP_TOALTSTACK, OP_VERIFY, OP_ADD}

\* Opcodes that read a number from the stack and go by it.
NumberReaders == {OP_PICK, OP_ROLL, OP_CHECKMULTISIG}

UnderflowOps ==
    FixedNeedOps \cup NumberReaders \cup {OP_FROMALTSTACK, OP_0, OP_1, OP_1 + 1, OP_1NEGATE}

FixedNeed(op) ==
    IF op \in {OP_TOALTSTACK, OP_VERIFY} THEN 1 ELSE IF op = OP_ADD THEN 2 ELSE Needs(op)

Ended(before, kind, error, moved) ==
    [before |-> before, kind |-> kind, err |-> error, moved |-> moved]

InitUnderflow ==
    /\ so_self = from_script
    /\ so_ref = Ended(from_script, "none", "none", <<>>)
    /\ so_last = 0 /\ so_n = 0
    /\ IdleCore /\ IdleCodec /\ IdlePool /\ IdleStack /\ IdleLock /\ IdleName /\ IdleFold
    /\ IdlePick

\* The entry on top of the stack, the next input of the spender if the
\* stack is empty.
TopOrInput(st) ==
    IF st.elements = <<>> THEN StackE(st.next_element_id) ELSE st.elements[Len(st.elements)]

\* One iteration of the loop of analyze_path on the opcode op.
RunAny(op) ==
    /\ so_n < MaxUnderflowOps
    /\ so_ref.kind # "err"
    /\ LET r == exec_opcode(so_self, op, LegacyContext)
       IN  /\ so_self' = r.self
           /\ so_ref' = Ended(so_self, r.kind, r.err,
                              IF r.kind # "cont" THEN so_ref.moved
                              ELSE IF op = OP_TOALTSTACK
                              THEN Append(so_ref.moved, TopOrInput(so_self.stack))
                              ELSE IF op = OP_FROMALTSTACK
                              THEN SubSeq(so_ref.moved, 1, Len(so_ref.moved) - 1)
                              ELSE so_ref.moved)
    /\ so_last' = op
    /\ so_n' = so_n + 1
    /\ UNCHANGED <<coreVars, codecVars, poolVars, stackVars, lockVars, nameVars, foldVars, pickVars>>

NextUnderflow == \E op \in UnderflowOps : RunAny(op)

SpecUnderflow == InitUnderflow /\ [][NextUnderflow]_vars

Present == Len(so_ref.before.stack.elements)

UsedBefore == items_used(so_ref.before.stack)

UsedAfter == items_used(so_self.stack)

\* The last opcode read entries that were not on the stack.
Lacked ==
    /\ so_n > 0
    /\ \/ so_last \in FixedNeedOps /\ Present < FixedNeed(so_last)
       \/ so_last \in NumberReaders /\ Present = 0

\* OP_FROMALTSTACK found the altstack empty: the path is aborted and no
\* input was materialised.
EmptyAltstackAborts ==
    so_n > 0 /\ so_last = OP_FROMALTSTACK /\ so_ref.before.altstack = <<>> =>
        /\ so_ref.kind = "err"
        /\ so_ref.err = "SCRIPT_ERR_INVALID_ALTSTACK_OPERATION"
        /\ UsedAfter = UsedBefore

\* The altstack holds what OP_TOALTSTACK moved there, in that order.
AltstackOnlyMoved == so_self.altstack = so_ref.moved

IndexRead == decode_int_unchecked(TopOrInput(so_ref.before.stack).b)

LiteralIndex ==
    /\ Present > 0
    /\ TopOrInput(so_ref.before.stack).t = "Bytes"
    /\ IndexRead >= 0

====
